---- MODULE Spec2Model ----
(***************************************************************************)
(* The review session state machine of tensai (src/review/reducer.ts) as a *)
(* state machine.  The reducer is a pure function review(state, action);   *)
(* it is translated as the operator review, and every action type of the   *)
(* reducer is one action of the specification.                             *)
(*                                                                         *)
(* Cards are JavaScript objects.  The reducer searches its arrays with     *)
(* Array.indexOf and compares with ===, that is by object identity, and    *)
(* `{ ...card }` makes a new object that SHARES the `progress` object of   *)
(* the original, so an assignment to updatedCard.progress.level is seen    *)
(* through every card object that holds the same progress object.  A card  *)
(* is therefore a record                                                   *)
(*     [id, ref, prog, level, reviewed]                                    *)
(* where id is the card's _id, ref names the card object, prog names its   *)
(* progress object, and level / reviewed are the contents of that progress *)
(* object (kept equal in all cards with the same prog, see Mutate).        *)
(*                                                                         *)
(* Units: times are counted in ticks, TicksPerDay ticks to the day;        *)
(* progress.level (days, fractional) is held as a multiple of 1/LevelDen   *)
(* day, so that 0.5 is the integer 1.  A seed s in [0,1) is held as its    *)
(* numerator k over SeedDen: s = k / SeedDen.                              *)
(***************************************************************************)
EXTENDS Integers, Sequences, FiniteSets, TLC

\* ---------------------------------------------------------------- bounds
MaxCardId == 2
MaxRefs == 4
MaxLoad == 2
MaxSync == 1
SeedDen == 3
MaxTime == 1
MaxLimit == 1
MaxCount == 1
MaxSteps == 4
MaxPassTime == 3
MaxLevel == 3
MaxHistory == 1
MaxModified == 2
MaxMutations == 2
MaxSummaries == 2
MaxClock == 2
MaxWrites == 3
MaxDbCards == 2
MaxDbLevel == 2
MaxDue == 2
MaxDbNow == 2
MaxDbWrites == 6
MaxTimers == 3
MaxWatcherSteps == 6
MaxHeapSteps == 5
MaxHeapTasks == 2
MaxSagaSteps == 5
ScoreUnit == 12000
ExpFactor == 27

\* ------------------------------------------------------------- constants
TicksPerDay == 4
LevelDen == 2

CardIds == 1..MaxCardId
Seeds == 0..(SeedDen - 1)
Times == 0..MaxTime
NoTime == -1

IDLE == "IDLE"
LOADING == "LOADING"
QUESTION == "QUESTION"
ANSWER == "ANSWER"
COMPLETE == "COMPLETE"
ReviewPhase == {IDLE, LOADING, QUESTION, ANSWER, COMPLETE}

UpdateCurrentCard == "UpdateCurrentCard"
ReplaceNextCard == "ReplaceNextCard"

\* null: the value of currentCard / nextCard when there is no card
NoCard == [id |-> 0, ref |-> 0, prog |-> 0, level |-> 0, reviewed |-> NoTime]

\* availableCards: << >> is undefined, << a >> is the summary a
Undefined == << >>

initialState ==
  [phase |-> IDLE,
   reviewTime |-> 0,
   maxCards |-> 0,
   maxNewCards |-> 0,
   completed |-> 0,
   newCardsInPlay |-> 0,
   heap |-> << >>,
   failedCardsLevel1 |-> << >>,
   failedCardsLevel2 |-> << >>,
   history |-> << >>,
   currentCard |-> NoCard,
   nextCard |-> NoCard,
   availableCards |-> Undefined,
   savingProgress |-> FALSE,
   loadingAvailableCards |-> FALSE]

\* ------------------------------------------------------- array helpers
\* Array.prototype.indexOf on an array of objects: the first position holding
\* the same object (1-based; 0 when absent, where the code has -1)
indexOf(arr, card) ==
  IF \E i \in 1..Len(arr) : arr[i].ref = card.ref
  THEN CHOOSE i \in 1..Len(arr) :
         /\ arr[i].ref = card.ref
         /\ \A j \in 1..(i - 1) : arr[j].ref # card.ref
  ELSE 0

\* findIndex(card => card._id === id)
findIndexById(arr, id) ==
  IF \E i \in 1..Len(arr) : arr[i].id = id
  THEN CHOOSE i \in 1..Len(arr) :
         /\ arr[i].id = id
         /\ \A j \in 1..(i - 1) : arr[j].id # id
  ELSE 0

\* arr.slice() followed by splice(i, 1)
splice(arr, i) ==
  [j \in 1..(Len(arr) - 1) |-> IF j < i THEN arr[j] ELSE arr[j + 1]]

\* arr.map(f)
MapCards(arr, f(_)) == [j \in 1..Len(arr) |-> f(arr[j])]

Range(arr) == {arr[j] : j \in 1..Len(arr)}

\* ------------------------------------------------ objects and aliasing
AllCards(st) ==
  (Range(st.heap) \cup Range(st.failedCardsLevel1) \cup
   Range(st.failedCardsLevel2) \cup Range(st.history) \cup
   {st.currentCard, st.nextCard}) \ {NoCard}

LiveRefs(st) == {c.ref : c \in AllCards(st)}
LiveProgs(st) == {c.prog : c \in AllCards(st)}

\* The name of the n-th (n >= 1) object allocated in the state st: a name
\* that no card object (progress object) of the state bears.
Max(S) == IF S = {} THEN 0 ELSE CHOOSE n \in S : \A m \in S : m <= n
Min(S) == IF S = {} THEN 0 ELSE CHOOSE n \in S : \A m \in S : n <= m
NewRef(st, n) == Max(LiveRefs(st)) + n
NewProg(st, n) == Max(LiveProgs(st)) + n

\* An assignment to the fields of the progress object p, seen through every
\* card object of the state that holds p
MutateCard(c, p, level, reviewed) ==
  IF c # NoCard /\ c.prog = p
  THEN [c EXCEPT !.level = level, !.reviewed = reviewed]
  ELSE c

Mutate(st, p, level, reviewed) ==
  LET f(c) == MutateCard(c, p, level, reviewed)
  IN [st EXCEPT
        !.heap = MapCards(st.heap, f),
        !.failedCardsLevel1 = MapCards(st.failedCardsLevel1, f),
        !.failedCardsLevel2 = MapCards(st.failedCardsLevel2, f),
        !.history = MapCards(st.history, f),
        !.currentCard = f(st.currentCard),
        !.nextCard = f(st.nextCard)]

\* ------------------------------------------------------- updateNextCard
\* Math.floor(seed * cardsAvailable) for the seed k / SeedDen
floorSeed(k, cardsAvailable) == (k * cardsAvailable) \div SeedDen

\* faulty variant: the pool is taken as failedCardsLevel1, then
\* failedCardsLevel2, then the heap
getCardAtIndexLevel1First(st, heap, cardIndex) ==
  LET level2Start == Len(st.failedCardsLevel1)
      heapStart == Len(st.failedCardsLevel2) + Len(st.failedCardsLevel1)
  IN IF cardIndex < level2Start THEN st.failedCardsLevel1[cardIndex + 1]
     ELSE IF cardIndex < heapStart
          THEN st.failedCardsLevel2[cardIndex - level2Start + 1]
          ELSE heap[cardIndex - heapStart + 1]

\* getCardAtIndex (0-based cardIndex) over failedCardsLevel2, then
\* failedCardsLevel1, then the local heap
getCardAtIndex(st, heap, cardIndex) ==
  LET level1Start == Len(st.failedCardsLevel2)
      heapStart == Len(st.failedCardsLevel2) + Len(st.failedCardsLevel1)
  IN IF cardIndex < level1Start THEN st.failedCardsLevel2[cardIndex + 1]
     ELSE IF cardIndex < heapStart
          THEN st.failedCardsLevel1[cardIndex - level1Start + 1]
          ELSE heap[cardIndex - heapStart + 1]

\* faulty variant: the index is always shifted to the previous one, or to the
\* next one from the first
shiftIndexBack(cardIndex, cardsAvailable) ==
  IF cardIndex > 0 THEN cardIndex - 1 ELSE cardIndex + 1

\* the shift of the index when the pick is the current card
shiftIndex(cardIndex, cardsAvailable) ==
  IF cardIndex < cardsAvailable - 1 THEN cardIndex + 1 ELSE cardIndex - 1

\* the "Find next card" block: the card picked from the pool for the seed
findNextCard(st, heap, currentCard, cardsAvailable, seed) ==
  IF cardsAvailable # 0
  THEN LET cardIndex == floorSeed(seed, cardsAvailable)
           picked == getCardAtIndex(st, heap, cardIndex)
       IN IF picked.ref = currentCard.ref
          THEN IF cardsAvailable = 1
               THEN NoCard
               ELSE getCardAtIndex(st, heap, shiftIndex(cardIndex, cardsAvailable))
          ELSE picked
  ELSE NoCard

\* a card found in the heap that is level zero and never reviewed is new
isNewCard(card) == card.level = 0 /\ card.reviewed = NoTime

\* faulty variant: an empty pool always completes the review
emptyPoolCompletes(st, updateMode) ==
  [st EXCEPT !.phase = COMPLETE, !.currentCard = NoCard, !.nextCard = NoCard]

\* the pool is empty: complete, or only the next card goes
emptyPool(st, updateMode) ==
  IF updateMode = UpdateCurrentCard \/ st.currentCard = NoCard
  THEN [st EXCEPT !.phase = COMPLETE, !.currentCard = NoCard, !.nextCard = NoCard]
  ELSE [st EXCEPT !.nextCard = NoCard]

\* the card that is current while the next card is found: in the mode
\* UpdateCurrentCard the next card of the state
newCurrentCard(st, updateMode) ==
  IF updateMode = UpdateCurrentCard THEN st.nextCard ELSE st.currentCard

\* the "Update current card" block: the current card, the heap without it,
\* the size of the pool and the count of new cards in play
updateCurrent(st, updateMode) ==
  LET currentCard == newCurrentCard(st, updateMode)
      available == Len(st.failedCardsLevel2) + Len(st.failedCardsLevel1) + Len(st.heap)
      heapIndex == IF updateMode = UpdateCurrentCard /\ currentCard # NoCard
                   THEN indexOf(st.heap, currentCard) ELSE 0
  IN [currentCard |-> currentCard,
      heap |-> IF heapIndex # 0 THEN splice(st.heap, heapIndex) ELSE st.heap,
      cardsAvailable |-> IF heapIndex # 0 THEN available - 1 ELSE available,
      newCardsInPlay |-> IF heapIndex # 0 /\ isNewCard(currentCard)
                         THEN st.newCardsInPlay + 1 ELSE st.newCardsInPlay]

\* faulty variant: the last card is never revisited
neverRevisits(currentCard, st, nextCard) == FALSE

\* the current card went null, but there is a next card: revisit it
revisits(currentCard, st, nextCard) ==
  currentCard = NoCard /\ st.currentCard # NoCard /\ nextCard # NoCard

\* faulty variant: the history keeps a card that is the current card again
keptHistory(history, currentCard) == history

\* the current card is dropped from the history
dropFromHistory(history, currentCard) ==
  LET historyIndex == IF currentCard # NoCard THEN indexOf(history, currentCard) ELSE 0
  IN IF historyIndex # 0 THEN splice(history, historyIndex) ELSE history

updateNextCard(st, seed, updateMode) ==
  IF Len(st.failedCardsLevel2) + Len(st.failedCardsLevel1) + Len(st.heap) = 0
  THEN emptyPool(st, updateMode)
  ELSE
    LET u == updateCurrent(st, updateMode)
        picked == findNextCard(st, u.heap, u.currentCard, u.cardsAvailable, seed)
        revisit == revisits(u.currentCard, st, picked)
        currentCard == IF revisit THEN picked ELSE u.currentCard
    IN [st EXCEPT !.newCardsInPlay = u.newCardsInPlay,
                  !.heap = u.heap,
                  !.history = dropFromHistory(st.history, currentCard),
                  !.currentCard = currentCard,
                  !.nextCard = IF revisit THEN NoCard ELSE picked]

\* ------------------------------------------------------------ PASS_CARD
\* faulty variant: the guard looks at the current card instead of the phase
answerAcceptedWithCard(st) == st.currentCard # NoCard

\* PASS_CARD and FAIL_CARD are accepted only in the Answer and Question phases
answerAccepted(st) == st.phase = ANSWER \/ st.phase = QUESTION

\* `{ ...card }`: a new card object with the same progress object
copyCard(st, card) == [card EXCEPT !.ref = NewRef(st, 1)]

\* faulty variant: a card of queue two is dropped at once and has finished
passQueuesDropAtOnce(st, passedCard, updatedCard) ==
  LET index2 == indexOf(st.failedCardsLevel2, passedCard)
      index1 == indexOf(st.failedCardsLevel1, passedCard)
  IN [failedCardsLevel2 |-> IF index2 # 0 THEN splice(st.failedCardsLevel2, index2)
                            ELSE st.failedCardsLevel2,
      failedCardsLevel1 |-> IF index2 = 0 /\ index1 # 0
                            THEN splice(st.failedCardsLevel1, index1)
                            ELSE st.failedCardsLevel1,
      finished |-> TRUE]

\* the failed queues after a pass: a card of queue two moves to queue one and
\* has not finished, a card of queue one is dropped
passQueues(st, passedCard, updatedCard) ==
  LET index2 == indexOf(st.failedCardsLevel2, passedCard)
      index1 == indexOf(st.failedCardsLevel1, passedCard)
  IN IF index2 # 0
     THEN [failedCardsLevel2 |-> splice(st.failedCardsLevel2, index2),
           failedCardsLevel1 |-> Append(st.failedCardsLevel1, updatedCard),
           finished |-> FALSE]
     ELSE [failedCardsLevel2 |-> st.failedCardsLevel2,
           failedCardsLevel1 |-> IF index1 # 0 THEN splice(st.failedCardsLevel1, index1)
                                 ELSE st.failedCardsLevel1,
           finished |-> TRUE]

\* the new level of a card that has finished: Math.max(intervalInDays * 2,
\* level, 0.5), or 0.5 for a new / reset card
\* mutant of passedLevel: the maximum is taken for every card, new and reset
\* cards too
passedLevelAlwaysMax(card, reviewTime) ==
  LET interval2 == IF card.reviewed = NoTime THEN 0
                   ELSE (2 * LevelDen * (reviewTime - card.reviewed)) \div TicksPerDay
      a == IF interval2 > card.level THEN interval2 ELSE card.level
  IN IF 2 * a > LevelDen THEN a ELSE LevelDen \div 2

passedLevel(card, reviewTime) ==
  IF card.level # 0 /\ card.reviewed # NoTime
  THEN LET interval2 == (2 * LevelDen * (reviewTime - card.reviewed)) \div TicksPerDay
           a == IF interval2 > card.level THEN interval2 ELSE card.level
       IN IF 2 * a > LevelDen THEN a ELSE LevelDen \div 2
  ELSE LevelDen \div 2

\* the state that PASS_CARD hands to updateNextCard
passIntermediate(st) ==
  LET passedCard == st.currentCard
      updatedCard == copyCard(st, passedCard)
      q == passQueues(st, passedCard, updatedCard)
      level == IF q.finished THEN passedLevel(updatedCard, st.reviewTime) ELSE 0
      reviewed == IF q.finished THEN st.reviewTime ELSE updatedCard.reviewed
      intermediateState ==
        [st EXCEPT !.phase = QUESTION,
                   !.completed = IF q.finished THEN st.completed + 1 ELSE st.completed,
                   !.failedCardsLevel2 = q.failedCardsLevel2,
                   !.failedCardsLevel1 = q.failedCardsLevel1,
                   !.history = Append(st.history, updatedCard),
                   !.currentCard = updatedCard,
                   !.savingProgress = TRUE]
  IN Mutate(intermediateState, updatedCard.prog, level, reviewed)

passCard(st, seed) ==
  IF ~answerAccepted(st) THEN st
  ELSE updateNextCard(passIntermediate(st), seed, UpdateCurrentCard)

\* ------------------------------------------------------------ FAIL_CARD
\* faulty variant: the card is pushed onto queue two and stays in queue one
failQueuesKeepLevel1(st, failedCard, updatedCard) ==
  LET index2 == indexOf(st.failedCardsLevel2, failedCard)
  IN [failedCardsLevel1 |-> st.failedCardsLevel1,
      failedCardsLevel2 |-> Append(IF index2 # 0 THEN splice(st.failedCardsLevel2, index2)
                                   ELSE st.failedCardsLevel2, updatedCard)]

\* the failed queues after a fail: the card leaves queue one, or else queue
\* two, and the updated card is pushed onto queue two
failQueues(st, failedCard, updatedCard) ==
  LET index1 == indexOf(st.failedCardsLevel1, failedCard)
      index2 == IF index1 = 0 THEN indexOf(st.failedCardsLevel2, failedCard) ELSE 0
  IN [failedCardsLevel1 |-> IF index1 # 0 THEN splice(st.failedCardsLevel1, index1)
                            ELSE st.failedCardsLevel1,
      failedCardsLevel2 |-> Append(IF index2 # 0 THEN splice(st.failedCardsLevel2, index2)
                                   ELSE st.failedCardsLevel2, updatedCard)]

\* the state that FAIL_CARD hands to updateNextCard
failIntermediate(st) ==
  LET failedCard == st.currentCard
      updatedCard == copyCard(st, failedCard)
      q == failQueues(st, failedCard, updatedCard)
      intermediateState ==
        [st EXCEPT !.phase = QUESTION,
                   !.failedCardsLevel1 = q.failedCardsLevel1,
                   !.failedCardsLevel2 = q.failedCardsLevel2,
                   !.history = Append(st.history, updatedCard),
                   !.currentCard = updatedCard,
                   !.savingProgress = TRUE]
  IN Mutate(intermediateState, updatedCard.prog, 0, st.reviewTime)

failCard(st, seed) ==
  IF ~answerAccepted(st) THEN st
  ELSE updateNextCard(failIntermediate(st), seed, UpdateCurrentCard)

\* -------------------------------------------------------- REVIEW_LOADED
\* an optional field of the action: << >> when undefined, << v >> when v
override(opt, old) == IF opt = << >> THEN old ELSE opt[1]

\* faulty variant: the first updateNextCard of REVIEW_LOADED updates the
\* current card
loadUpdateModeCurrent == UpdateCurrentCard

\* the first updateNextCard of REVIEW_LOADED replaces the next card only
loadUpdateMode == ReplaceNextCard

\* faulty variant: any phase goes to Question when there is a current card
loadedPhaseQuestion(phase, currentCard, initialReview) ==
  LET phase1 == IF currentCard # NoCard THEN QUESTION ELSE phase
  IN IF phase1 = COMPLETE /\ initialReview THEN IDLE ELSE phase1

\* faulty variant: a completed review stays complete when cards are loaded
loadedPhaseStaysComplete(phase, currentCard, initialReview) ==
  LET phase1 == IF phase = LOADING /\ currentCard # NoCard THEN QUESTION ELSE phase
  IN IF phase1 = COMPLETE /\ initialReview THEN IDLE ELSE phase1

\* the phase after REVIEW_LOADED has updated the cards
loadedPhase(phase, currentCard, initialReview) ==
  LET phase1 == IF phase \in {COMPLETE, LOADING} /\ currentCard # NoCard
                THEN QUESTION ELSE phase
  IN IF phase1 = COMPLETE /\ initialReview THEN IDLE ELSE phase1

\* the state with the loaded heap and the fields of a synchronised review
loadIntermediate(st, a) ==
  [st EXCEPT
     !.heap = a.cards,
     !.history = override(a.history, st.history),
     !.failedCardsLevel1 = override(a.failedCardsLevel1, st.failedCardsLevel1),
     !.failedCardsLevel2 = override(a.failedCardsLevel2, st.failedCardsLevel2)]

\* the state after the next card has been replaced
loadNextCard(st, a) == updateNextCard(loadIntermediate(st, a), a.nextCardSeed, loadUpdateMode)

\* neither card was filled in: the current card is updated too
loadsCurrentCard(st1) == st1.nextCard # NoCard /\ st1.currentCard = NoCard

reviewLoaded(st, a) ==
  LET state1 == loadNextCard(st, a)
      state2 == IF loadsCurrentCard(state1)
                THEN updateNextCard(state1, a.currentCardSeed, UpdateCurrentCard)
                ELSE state1
  IN [state2 EXCEPT !.phase = loadedPhase(state2.phase, state2.currentCard, a.initialReview)]

\* ------------------------------------------------- the other action types
newReview(st, maxCards, maxNewCards) ==
  [initialState EXCEPT !.phase = LOADING,
                       !.reviewTime = st.reviewTime,
                       !.maxCards = maxCards,
                       !.maxNewCards = maxNewCards,
                       !.availableCards = Undefined]

setReviewLimit(st, maxCards, maxNewCards) ==
  [st EXCEPT !.phase = LOADING, !.maxCards = maxCards, !.maxNewCards = maxNewCards]

\* faulty variant: a change of the review time goes to Loading
setReviewTimeLoading(st, reviewTime) ==
  [st EXCEPT !.phase = LOADING, !.reviewTime = reviewTime]

setReviewTime(st, reviewTime) == [st EXCEPT !.reviewTime = reviewTime]

showAnswer(st) == IF st.phase # QUESTION THEN st ELSE [st EXCEPT !.phase = ANSWER]

finishUpdateProgress(st) ==
  IF ~st.savingProgress THEN st ELSE [st EXCEPT !.savingProgress = FALSE]

queryAvailableCards(st) == [st EXCEPT !.loadingAvailableCards = TRUE]

updateAvailableCards(st, availableCards) ==
  IF st.phase \notin {IDLE, COMPLETE}
  THEN [st EXCEPT !.availableCards = Undefined, !.loadingAvailableCards = FALSE]
  ELSE [st EXCEPT !.availableCards = << availableCards >>,
                  !.loadingAvailableCards = FALSE]

\* mutant of updateReviewCard: the cards of the history are left as they were
updateReviewCardSkipsHistory(st, card) ==
  LET f(c) == IF c.id = card.id THEN card ELSE c
  IN [st EXCEPT
        !.currentCard = f(st.currentCard),
        !.nextCard = f(st.nextCard),
        !.heap = MapCards(st.heap, f),
        !.failedCardsLevel1 = MapCards(st.failedCardsLevel1, f),
        !.failedCardsLevel2 = MapCards(st.failedCardsLevel2, f)]

updateReviewCard(st, card) ==
  LET f(c) == IF c.id = card.id THEN card ELSE c
  IN [st EXCEPT
        !.currentCard = f(st.currentCard),
        !.nextCard = f(st.nextCard),
        !.heap = MapCards(st.heap, f),
        !.failedCardsLevel1 = MapCards(st.failedCardsLevel1, f),
        !.failedCardsLevel2 = MapCards(st.failedCardsLevel2, f),
        !.history = MapCards(st.history, f)]

\* the first card with the id is cut out of an array
spliceById(arr, id) ==
  LET index == findIndexById(arr, id)
  IN IF index = 0 THEN arr ELSE splice(arr, index)

deleteSpliced(st, id) ==
  [st EXCEPT
     !.heap = spliceById(st.heap, id),
     !.failedCardsLevel1 = spliceById(st.failedCardsLevel1, id),
     !.failedCardsLevel2 = spliceById(st.failedCardsLevel2, id),
     !.history = spliceById(st.history, id)]

deleteReviewCard(st, id, seed) ==
  IF st.nextCard # NoCard /\ st.nextCard.id = id
  THEN updateNextCard(deleteSpliced(st, id), seed, ReplaceNextCard)
  ELSE IF st.currentCard # NoCard /\ st.currentCard.id = id
       THEN updateNextCard([deleteSpliced(st, id) EXCEPT !.currentCard = NoCard],
                           seed, UpdateCurrentCard)
       ELSE deleteSpliced(st, id)

loadReview(st, r) ==
  [st EXCEPT !.phase = LOADING,
             !.maxCards = r.maxCards,
             !.maxNewCards = r.maxNewCards,
             !.completed = r.completed,
             !.newCardsInPlay = r.newCardsCompleted,
             !.currentCard = NoCard,
             !.nextCard = NoCard]

\* faulty variant: a review is cancelled in every phase
cancelReviewInAnyPhase(st) ==
  [st EXCEPT !.phase = IDLE, !.maxCards = 0, !.maxNewCards = 0, !.completed = 0,
             !.newCardsInPlay = 0, !.heap = << >>, !.failedCardsLevel1 = << >>,
             !.failedCardsLevel2 = << >>, !.history = << >>,
             !.currentCard = NoCard, !.nextCard = NoCard]

cancelReview(st) ==
  IF st.phase = IDLE \/ st.phase = COMPLETE THEN st
  ELSE [st EXCEPT !.phase = IDLE,
                  !.maxCards = 0,
                  !.maxNewCards = 0,
                  !.completed = 0,
                  !.newCardsInPlay = 0,
                  !.heap = << >>,
                  !.failedCardsLevel1 = << >>,
                  !.failedCardsLevel2 = << >>,
                  !.history = << >>,
                  !.currentCard = NoCard,
                  !.nextCard = NoCard]

\* ---------------------------------------------------------- the reducer
review(st, a) ==
  CASE a.type = "NEW_REVIEW" -> newReview(st, a.maxCards, a.maxNewCards)
    [] a.type = "SET_REVIEW_LIMIT" -> setReviewLimit(st, a.maxCards, a.maxNewCards)
    [] a.type = "SET_REVIEW_TIME" -> setReviewTime(st, a.reviewTime)
    [] a.type = "REVIEW_LOADED" -> reviewLoaded(st, a)
    [] a.type = "PASS_CARD" -> passCard(st, a.nextCardSeed)
    [] a.type = "SHOW_ANSWER" -> showAnswer(st)
    [] a.type = "FAIL_CARD" -> failCard(st, a.nextCardSeed)
    [] a.type = "FINISH_UPDATE_PROGRESS" -> finishUpdateProgress(st)
    [] a.type = "QUERY_AVAILABLE_CARDS" -> queryAvailableCards(st)
    [] a.type = "UPDATE_AVAILABLE_CARDS" -> updateAvailableCards(st, a.availableCards)
    [] a.type = "UPDATE_REVIEW_CARD" -> updateReviewCard(st, a.card)
    [] a.type = "DELETE_REVIEW_CARD" -> deleteReviewCard(st, a.id, a.nextCardSeed)
    [] a.type = "LOAD_REVIEW" -> loadReview(st, a.review)
    [] a.type = "CANCEL_REVIEW" -> cancelReview(st)
    [] OTHER -> st

\* ------------------------------------------------ names of the objects
\* Only the identity of objects can be observed, never their names: after
\* each action the card objects and the progress objects of the state are
\* renamed 1, 2, ... in the order in which the fields first mention them.
Mentions(st) ==
  << st.currentCard, st.nextCard >> \o st.heap \o st.failedCardsLevel1 \o
  st.failedCardsLevel2 \o st.history

RankRef(m, r) ==
  LET first == CHOOSE i \in 1..Len(m) :
                 m[i].ref = r /\ \A j \in 1..(i - 1) : m[j].ref # r
  IN Cardinality({m[j].ref : j \in 1..(first - 1)} \ {0}) + 1

RankProg(m, p) ==
  LET first == CHOOSE i \in 1..Len(m) :
                 m[i].prog = p /\ \A j \in 1..(i - 1) : m[j].prog # p
  IN Cardinality({m[j].prog : j \in 1..(first - 1)} \ {0}) + 1

Canon(st) ==
  LET m == Mentions(st)
      f(c) == IF c = NoCard THEN c
              ELSE [c EXCEPT !.ref = RankRef(m, c.ref), !.prog = RankProg(m, c.prog)]
  IN [st EXCEPT
        !.heap = MapCards(st.heap, f),
        !.failedCardsLevel1 = MapCards(st.failedCardsLevel1, f),
        !.failedCardsLevel2 = MapCards(st.failedCardsLevel2, f),
        !.history = MapCards(st.history, f),
        !.currentCard = f(st.currentCard),
        !.nextCard = f(st.nextCard)]

\* ------------------------------------------------- inputs of the actions
\* the progress of a card as the store returns it: a new card (level 0,
\* never reviewed) or a card reviewed at time 0 with a level of one day
StoreProgress ==
  {[level |-> 0, reviewed |-> NoTime], [level |-> LevelDen, reviewed |-> 0]}

\* the progress of a failed card as the store returns it
FailedProgress == [level |-> 0, reviewed |-> 0]

\* the card object that a read of the store makes for the card id: the n-th
\* new object after the objects ref0 and prog0, with its own progress object
StoreCard(ref0, prog0, id, n, pr) ==
  [id |-> id, ref |-> ref0 + n, prog |-> prog0 + n,
   level |-> pr.level, reviewed |-> pr.reviewed]

\* the sequences of at most n different elements of the set S
SeqsOver(S, n) ==
  UNION {{q \in [1..k -> S] : \A i, j \in 1..k : i # j => q[i] # q[j]} : k \in 0..n}

\* The seeds of REVIEW_LOADED.  currentCardSeed is read only by the second
\* updateNextCard, which runs only when there is no current card.
SeedPairs(st) ==
  IF st.currentCard = NoCard THEN Seeds \X Seeds ELSE Seeds \X {0}

\* what updateHeap reads from the store: at most MaxLoad cards, no card
\* twice, as pairs << ids, progress of each >>
LoadedCards ==
  UNION {{<< q, r >> : r \in [1..Len(q) -> StoreProgress]} : q \in SeqsOver(CardIds, MaxLoad)}

\* REVIEW_LOADED as updateHeap dispatches it: every card is a new object
LoadedActions(st) ==
  LET ref0 == NewRef(st, 0)
      prog0 == NewProg(st, 0)
  IN {[type |-> "REVIEW_LOADED",
       cards |-> [i \in 1..Len(c[1]) |-> StoreCard(ref0, prog0, c[1][i], i, c[2][i])],
       history |-> << >>, failedCardsLevel1 |-> << >>, failedCardsLevel2 |-> << >>,
       nextCardSeed |-> s[1], currentCardSeed |-> s[2], initialReview |-> b] :
        c \in LoadedCards, s \in SeedPairs(st), b \in BOOLEAN}

\* A synchronised review, as triples << failedCardsLevel2, failedCardsLevel1,
\* cards >> of card ids: a card is in at most one of the three
SyncedCards ==
  {q \in SeqsOver(CardIds, MaxSync) \X SeqsOver(CardIds, MaxSync)
         \X SeqsOver(CardIds, MaxLoad) :
     /\ Range(q[1]) \cap Range(q[2]) = {}
     /\ Range(q[1]) \cap Range(q[3]) = {}
     /\ Range(q[2]) \cap Range(q[3]) = {}}

\* REVIEW_LOADED of a synchronised review: the failed queues and the history
\* are given too.  Each card is read once (one object for an id); the cards
\* of the failed queues are stored as failed and are, as in a running
\* review, the cards of the history; the cards of the heap are due cards.
SyncedActions(st) ==
  LET ref0 == NewRef(st, 0)
      prog0 == NewProg(st, 0)
      failed(id) == StoreCard(ref0, prog0, id, id, FailedProgress)
      due(id) == StoreCard(ref0, prog0, id, id, [level |-> LevelDen, reviewed |-> 0])
  IN {[type |-> "REVIEW_LOADED",
       cards |-> [i \in 1..Len(q[3]) |-> due(q[3][i])],
       history |-> << [i \in 1..Len(q[2] \o q[1]) |-> failed((q[2] \o q[1])[i])] >>,
       failedCardsLevel1 |-> << [i \in 1..Len(q[2]) |-> failed(q[2][i])] >>,
       failedCardsLevel2 |-> << [i \in 1..Len(q[1]) |-> failed(q[1][i])] >>,
       nextCardSeed |-> s[1], currentCardSeed |-> s[2], initialReview |-> FALSE] :
        q \in SyncedCards, s \in SeedPairs(st)}

\* the limits of a review: maxCards, maxNewCards
LimitPairs == {<< MaxLimit + 1, MaxLimit >>}

ReviewSummaries ==
  {[maxCards |-> l[1], maxNewCards |-> l[2], completed |-> c, newCardsCompleted |-> n] :
     l \in LimitPairs, c \in 0..MaxCount, n \in 0..MaxCount}

AvailableSummaries == {[newCards |-> MaxLimit, overdueCards |-> MaxLimit + 1]}

\* the model follows states with at most MaxRefs card objects, arrays of at
\* most MaxRefs cards and counters up to MaxCount
InBounds(st) ==
  /\ Cardinality(LiveRefs(st)) <= MaxRefs
  /\ Len(st.heap) <= MaxRefs
  /\ Len(st.failedCardsLevel1) <= MaxRefs
  /\ Len(st.failedCardsLevel2) <= MaxRefs
  /\ Len(st.history) <= MaxRefs
  /\ st.completed <= MaxCount
  /\ st.newCardsInPlay <= MaxCount

\* ---------------------------------------------------------- the machine
\* state is the ReviewState of the store; steps counts the dispatched actions
\* that changed it
VARIABLES state, steps, saga, sync, store, reviewDoc, db, watcher
vars == << state, steps, saga, sync, store, reviewDoc, db, watcher >>

\* the variables of the review document, of the card database and of the
\* watcher of the card changes, which the machines above them leave alone
Rest == << reviewDoc, db, watcher >>

\* the reducer alone: no saga task waits, the review document has no
\* conflict and no card store is open
NoSaga == [tasks |-> << >>, alive |-> TRUE, crashed |-> FALSE, logged |-> FALSE]
NoSync == [resolved |-> FALSE]
NoStore == [open |-> FALSE]
NoReviewDoc == [open |-> FALSE]
NoDb == [open |-> FALSE]
NoWatcher == [open |-> FALSE]

RestClosed ==
  /\ reviewDoc = NoReviewDoc
  /\ db = NoDb
  /\ watcher = NoWatcher

Init ==
  /\ state = initialState
  /\ steps = 0
  /\ saga = NoSaga
  /\ sync = NoSync
  /\ store = NoStore
  /\ RestClosed

\* The store dispatches an action and the state becomes reduced, the state
\* that review returns for it.  Each action below hands over the case of
\* review for its action type.
Reduce(reduced) ==
  \E next \in {Canon(reduced)} :
    /\ InBounds(next)
    /\ state' = next
    /\ steps' = IF next = state THEN steps ELSE steps + 1

Dispatch(reduced) ==
  /\ Reduce(reduced)
  /\ UNCHANGED << saga, sync, store, Rest >>

NewReview ==
  /\ steps < MaxSteps
  /\ \E l \in LimitPairs : Dispatch(newReview(state, l[1], l[2]))

SetReviewLimit ==
  /\ steps < MaxSteps
  /\ \E l \in LimitPairs : Dispatch(setReviewLimit(state, l[1], l[2]))

SetReviewTime ==
  /\ steps < MaxSteps
  /\ \E reviewTime \in Times : Dispatch(setReviewTime(state, reviewTime))

ReviewLoaded ==
  /\ steps < MaxSteps
  /\ \E a \in LoadedActions(state) : Dispatch(reviewLoaded(state, a))

\* a synchronised review is loaded after LOAD_REVIEW
ReviewLoadedSync ==
  /\ steps < MaxSteps
  /\ state.phase = LOADING
  /\ state.currentCard = NoCard
  /\ \E a \in SyncedActions(state) : Dispatch(reviewLoaded(state, a))

PassCard ==
  /\ steps < MaxSteps
  /\ \E seed \in Seeds : Dispatch(passCard(state, seed))

ShowAnswer ==
  /\ steps < MaxSteps
  /\ Dispatch(showAnswer(state))

FailCard ==
  /\ steps < MaxSteps
  /\ \E seed \in Seeds : Dispatch(failCard(state, seed))

FinishUpdateProgress ==
  /\ steps < MaxSteps
  /\ Dispatch(finishUpdateProgress(state))

QueryAvailableCards ==
  /\ steps < MaxSteps
  /\ Dispatch(queryAvailableCards(state))

UpdateAvailableCards ==
  /\ steps < MaxSteps
  /\ \E a \in AvailableSummaries : Dispatch(updateAvailableCards(state, a))

UpdateReviewCard ==
  /\ steps < MaxSteps
  /\ \E id \in CardIds, pr \in StoreProgress :
       Dispatch(updateReviewCard(
                  state, StoreCard(NewRef(state, 0), NewProg(state, 0), id, 1, pr)))

DeleteReviewCard ==
  /\ steps < MaxSteps
  /\ \E id \in CardIds, seed \in Seeds : Dispatch(deleteReviewCard(state, id, seed))

LoadReview ==
  /\ steps < MaxSteps
  /\ \E r \in ReviewSummaries : Dispatch(loadReview(state, r))

CancelReview ==
  /\ steps < MaxSteps
  /\ Dispatch(cancelReview(state))

Next ==
  \/ NewReview
  \/ SetReviewLimit
  \/ SetReviewTime
  \/ ReviewLoaded
  \/ ReviewLoadedSync
  \/ PassCard
  \/ ShowAnswer
  \/ FailCard
  \/ FinishUpdateProgress
  \/ QueryAvailableCards
  \/ UpdateAvailableCards
  \/ UpdateReviewCard
  \/ DeleteReviewCard
  \/ LoadReview
  \/ CancelReview

Spec == Init /\ [][Next]_vars

TypeOK ==
  /\ state.phase \in ReviewPhase
  /\ steps \in 0..MaxSteps

\* ============================================================ the claims
Pass(seed) == [type |-> "PASS_CARD", nextCardSeed |-> seed]
Fail(seed) == [type |-> "FAIL_CARD", nextCardSeed |-> seed]

\* the card objects of an array, in order
RefsOf(arr) == [i \in 1..Len(arr) |-> arr[i].ref]
\* the card object is an element of the array
Holds(arr, card) == \E i \in 1..Len(arr) : arr[i].ref = card.ref
\* the array without its first occurrence of the card object
Without(arr, card) ==
  LET first == CHOOSE i \in 1..Len(arr) :
                 arr[i].ref = card.ref /\ \A j \in 1..(i - 1) : arr[j].ref # card.ref
  IN SubSeq(arr, 1, first - 1) \o SubSeq(arr, first + 1, Len(arr))
Last(arr) == arr[Len(arr)]
InAnswerPhase == state.phase \in {QUESTION, ANSWER}

\* C1: in every state whose phase is not Question or Answer (Idle, Loading,
\* Complete), PASS_CARD and FAIL_CARD with any seed return the state
\* unchanged, every field of it.
C1_RejectedUnchanged ==
  ~InAnswerPhase =>
    \A seed \in Seeds : review(state, Pass(seed)) = state /\ review(state, Fail(seed)) = state

\* a review that was sent back to Loading while a card was shown and cards
\* were queued: PASS_CARD and FAIL_CARD have been dispatched and changed nothing
C1_Witness ==
  /\ state.phase = LOADING
  /\ state.currentCard # NoCard
  /\ state.nextCard # NoCard
  /\ review(state, Pass(0)) = state
  /\ review(state, Fail(0)) = state

\* C2: PASS_CARD on a current card that is in failedCardsLevel2 takes it out
\* of failedCardsLevel2, appends its updated copy to failedCardsLevel1 and
\* leaves completed unchanged; PASS_CARD on a current card that is in
\* failedCardsLevel1 (and not in failedCardsLevel2) takes it out of
\* failedCardsLevel1, leaves failedCardsLevel2 alone and adds one to
\* completed.  So a failed card is counted only by its second pass.
C2_PassFailedQueues ==
  InAnswerPhase =>
    \A seed \in Seeds :
      LET cur == state.currentCard
          r == review(state, Pass(seed))
      IN /\ Holds(state.failedCardsLevel2, cur) =>
              /\ RefsOf(r.failedCardsLevel2) = RefsOf(Without(state.failedCardsLevel2, cur))
              /\ Len(r.failedCardsLevel1) = Len(state.failedCardsLevel1) + 1
              /\ RefsOf(SubSeq(r.failedCardsLevel1, 1, Len(state.failedCardsLevel1)))
                   = RefsOf(state.failedCardsLevel1)
              /\ Last(r.failedCardsLevel1).id = cur.id
              /\ Last(r.failedCardsLevel1).prog = cur.prog
              /\ Last(r.failedCardsLevel1).ref \notin LiveRefs(state)
              /\ r.completed = state.completed
         /\ (Holds(state.failedCardsLevel1, cur) /\ ~Holds(state.failedCardsLevel2, cur)) =>
              /\ RefsOf(r.failedCardsLevel1) = RefsOf(Without(state.failedCardsLevel1, cur))
              /\ RefsOf(r.failedCardsLevel2) = RefsOf(state.failedCardsLevel2)
              /\ r.completed = state.completed + 1

\* the current card has been failed and passed once (it is in
\* failedCardsLevel1, its first pass was not counted) and it is passed again
C2_Witness ==
  /\ InAnswerPhase
  /\ Holds(state.failedCardsLevel1, state.currentCard)
  /\ state.completed = 0
  /\ state.savingProgress
  /\ review(state, Pass(0)).completed = 1
  /\ ~Holds(review(state, Pass(0)).failedCardsLevel1, state.currentCard)

\* C3: FAIL_CARD accepted in Question or Answer takes the current card out of
\* failedCardsLevel1 if it is there (and else out of failedCardsLevel2 if it
\* is there), leaves its updated copy exactly once in failedCardsLevel2, as
\* the last element, with progress.level 0 and reviewed = reviewTime, and
\* does not change completed.
C3_FailQueues ==
  InAnswerPhase =>
    \A seed \in Seeds :
      LET cur == state.currentCard
          r == review(state, Fail(seed))
          failed == Last(r.failedCardsLevel2)
          in1 == Holds(state.failedCardsLevel1, cur)
          in2 == Holds(state.failedCardsLevel2, cur)
      IN /\ RefsOf(r.failedCardsLevel1) =
              RefsOf(IF in1 THEN Without(state.failedCardsLevel1, cur)
                     ELSE state.failedCardsLevel1)
         /\ Len(r.failedCardsLevel2) >= 1
         /\ RefsOf(SubSeq(r.failedCardsLevel2, 1, Len(r.failedCardsLevel2) - 1)) =
              RefsOf(IF ~in1 /\ in2 THEN Without(state.failedCardsLevel2, cur)
                     ELSE state.failedCardsLevel2)
         /\ failed.id = cur.id
         /\ failed.prog = cur.prog
         /\ failed.ref \notin LiveRefs(state)
         /\ Cardinality({i \in 1..Len(r.failedCardsLevel2) :
                           r.failedCardsLevel2[i].ref = failed.ref}) = 1
         /\ ~Holds(r.failedCardsLevel1, failed)
         /\ failed.level = 0
         /\ failed.reviewed = state.reviewTime
         /\ r.completed = state.completed

\* a card of failedCardsLevel1 with a reviewed time other than the review
\* time is failed, next to another failed card
C3_Witness ==
  /\ InAnswerPhase
  /\ Holds(state.failedCardsLevel1, state.currentCard)
  /\ state.currentCard.reviewed # state.reviewTime
  /\ Len(state.failedCardsLevel2) > 0
  /\ Len(review(state, Fail(0)).failedCardsLevel1) = Len(state.failedCardsLevel1) - 1
  /\ Len(review(state, Fail(0)).failedCardsLevel2) = Len(state.failedCardsLevel2) + 1

\* the copy of the answered card that PASS_CARD / FAIL_CARD made: the new
\* object with the id and the progress object of the current card
IsAnswered(card) ==
  /\ card.id = state.currentCard.id
  /\ card.prog = state.currentCard.prog
  /\ card.ref \notin LiveRefs(state)

\* the progress that a pass / a fail writes to the answered card
PassedProgress(card) ==
  IF Holds(state.failedCardsLevel2, state.currentCard)
  THEN card.level = 0 /\ card.reviewed = state.currentCard.reviewed
  ELSE card.level >= 1 /\ card.level >= state.currentCard.level
       /\ card.reviewed = state.reviewTime
FailedProgress0(card) == card.level = 0 /\ card.reviewed = state.reviewTime

\* the pool of the state: failedCardsLevel2 ++ failedCardsLevel1 ++ heap
Pool(st) == st.failedCardsLevel2 \o st.failedCardsLevel1 \o st.heap

C5_FailKeepsCard ==
  InAnswerPhase =>
    \A seed \in Seeds :
      LET r == review(state, Fail(seed))
      IN /\ r.phase = QUESTION
         /\ r.currentCard # NoCard
         /\ state.nextCard = NoCard =>
              /\ r.currentCard.id = state.currentCard.id
              /\ FailedProgress0(r.currentCard)
              /\ r.nextCard = NoCard
              /\ Pool(state) = << >> =>
                   /\ r.currentCard = Last(r.failedCardsLevel2)
                   /\ IsAnswered(r.currentCard)

\* the only card of the review, shown in the Answer phase, is failed
C5_Witness ==
  /\ state.phase = ANSWER
  /\ state.nextCard = NoCard
  /\ Pool(state) = << >>
  /\ review(state, Fail(0)).phase = QUESTION
  /\ review(state, Fail(0)).currentCard.id = state.currentCard.id
  /\ Len(review(state, Fail(0)).failedCardsLevel2) = 1

\* the calls of updateNextCard that the actions dispatched in the current
\* state make: the state handed over, the seed and the mode
LoadsOf(st) ==
  LoadedActions(st) \cup
  (IF st.phase = LOADING /\ st.currentCard = NoCard THEN SyncedActions(st) ELSE {})

UpdateCalls ==
  (IF InAnswerPhase
   THEN {[st |-> i, seed |-> seed, mode |-> UpdateCurrentCard, answered |-> TRUE] :
           i \in {passIntermediate(state), failIntermediate(state)}, seed \in Seeds}
   ELSE {})
  \cup
  {[st |-> loadIntermediate(state, a), seed |-> a.nextCardSeed, mode |-> loadUpdateMode,
    answered |-> FALSE] : a \in LoadsOf(state)}
  \cup
  {[st |-> loadNextCard(state, a), seed |-> a.currentCardSeed, mode |-> UpdateCurrentCard,
    answered |-> FALSE] :
     a \in {b \in LoadsOf(state) : loadsCurrentCard(loadNextCard(state, b))}}
  \cup
  {[st |-> deleteSpliced(state, id), seed |-> seed, mode |-> ReplaceNextCard,
    answered |-> FALSE] :
     id \in {i \in CardIds : state.nextCard # NoCard /\ state.nextCard.id = i},
     seed \in Seeds}
  \cup
  {[st |-> [deleteSpliced(state, id) EXCEPT !.currentCard = NoCard], seed |-> seed,
    mode |-> UpdateCurrentCard, answered |-> FALSE] :
     id \in {i \in CardIds : /\ ~(state.nextCard # NoCard /\ state.nextCard.id = i)
                             /\ state.currentCard # NoCard /\ state.currentCard.id = i},
     seed \in Seeds}

\* In a call c of updateNextCard: the card that is current when the next card
\* is selected (the next card of before, when the current card is updated)
CurrentOf(c) == IF c.mode = UpdateCurrentCard THEN c.st.nextCard ELSE c.st.currentCard

\* the pool of the selection: failedCardsLevel2 ++ failedCardsLevel1 ++ heap,
\* the heap without the card that has just become the current card
SelectionPool(c) ==
  c.st.failedCardsLevel2 \o c.st.failedCardsLevel1 \o
  (IF c.mode = UpdateCurrentCard /\ CurrentOf(c) # NoCard /\ Holds(c.st.heap, CurrentOf(c))
   THEN Without(c.st.heap, CurrentOf(c)) ELSE c.st.heap)

\* floor(s * n) for the seed s = k / SeedDen: the i with i <= s * n < i + 1
Floor(k, n) ==
  CHOOSE i \in 0..n : i * SeedDen <= k * n /\ k * n < (i + 1) * SeedDen

\* the element of the pool at the index floor(seed * poolSize)
PickOf(c) == SelectionPool(c)[Floor(c.seed, Len(SelectionPool(c))) + 1]

\* the current card went null in the call and the card picked is revisited
RevisitIn(c) == CurrentOf(c) = NoCard /\ c.st.currentCard # NoCard

\* C6: for every seed s, updateNextCard picks the element at the index
\* floor(s * poolSize) of failedCardsLevel2 ++ failedCardsLevel1 ++ heap (the
\* heap after the new current card has been removed), whenever that element
\* is not the current card: the card picked is the next card of the result,
\* or its current card (with no next card) when the current card had gone
\* null and the pick is revisited at once.
C6_PickAtSeedIndex ==
  \A c \in UpdateCalls :
    LET r == updateNextCard(c.st, c.seed, c.mode)
    IN (Pool(c.st) # << >> /\ SelectionPool(c) # << >>
        /\ PickOf(c).ref # CurrentOf(c).ref) =>
         /\ findNextCard(c.st, r.heap, CurrentOf(c), Len(SelectionPool(c)), c.seed) = PickOf(c)
         /\ IF RevisitIn(c)
            THEN r.currentCard = PickOf(c) /\ r.nextCard = NoCard
            ELSE r.nextCard = PickOf(c)

\* the next card is picked from each of the three parts of the pool, at an
\* index other than the first
C6_Witness ==
  /\ Len(state.failedCardsLevel2) = 1
  /\ Len(state.failedCardsLevel1) = 1
  /\ \E c \in UpdateCalls :
       /\ c.answered
       /\ Len(c.st.failedCardsLevel2) = 1 /\ Len(c.st.failedCardsLevel1) = 1
       /\ Len(SelectionPool(c)) = 3
       /\ Floor(c.seed, 3) = 2
       /\ updateNextCard(c.st, c.seed, c.mode).nextCard = c.st.heap[1]
       /\ PickOf(c) = c.st.heap[1]

\* the index that the selection shifts to
Shifted(i, n) == IF i + 1 <= n - 1 THEN i + 1 ELSE i - 1

\* C7 as stated: if the index picked lands on the card that has just been
\* passed or failed, the pick shifts to the next index of the pool, or to the
\* previous index from the last; if the pool size is 1 the next card is null.
C7_Original ==
  \A c \in UpdateCalls :
    LET r == updateNextCard(c.st, c.seed, c.mode)
        n == Len(SelectionPool(c))
        i == Floor(c.seed, n)
    IN (c.answered /\ n > 0 /\ PickOf(c).ref = c.st.currentCard.ref) =>
         r.nextCard = IF n = 1 THEN NoCard ELSE SelectionPool(c)[Shifted(i, n) + 1]

\* C7 (amended): if the index picked lands on the card that is the current
\* card after the update (the next card of before when the current card is
\* updated, the unchanged current card when only the next card is replaced),
\* the pick shifts to the next index of the pool, or to the previous index
\* when the pick was the last index; if the pool size is 1 the next card is
\* null.
C7_ShiftFromCurrent ==
  \A c \in UpdateCalls :
    LET r == updateNextCard(c.st, c.seed, c.mode)
        n == Len(SelectionPool(c))
        i == Floor(c.seed, n)
    IN (Pool(c.st) # << >> /\ n > 0 /\ PickOf(c).ref = CurrentOf(c).ref) =>
         /\ r.currentCard = CurrentOf(c)
         /\ r.nextCard = IF n = 1 THEN NoCard ELSE SelectionPool(c)[Shifted(i, n) + 1]

\* the pick lands on the new current card at the last index of a pool of more
\* than one card and shifts back, and in another call at an index before the
\* last and shifts on
C7_Witness ==
  /\ \E c \in UpdateCalls :
       /\ Len(SelectionPool(c)) >= 2
       /\ Floor(c.seed, Len(SelectionPool(c))) = Len(SelectionPool(c)) - 1
       /\ PickOf(c).ref = CurrentOf(c).ref
       /\ updateNextCard(c.st, c.seed, c.mode).nextCard
            = SelectionPool(c)[Len(SelectionPool(c)) - 1]
  /\ \E c \in UpdateCalls :
       /\ Len(SelectionPool(c)) >= 2
       /\ Floor(c.seed, Len(SelectionPool(c))) = 0
       /\ PickOf(c).ref = CurrentOf(c).ref
       /\ updateNextCard(c.st, c.seed, c.mode).nextCard = SelectionPool(c)[2]

\* C8: when updateNextCard runs with failedCardsLevel2, failedCardsLevel1 and
\* heap all empty: if it is updating the current card, or there is no current
\* card, the phase becomes Complete and currentCard and nextCard null;
\* otherwise only nextCard becomes null.  Nothing else changes.
C8_EmptyPool ==
  \A c \in UpdateCalls :
    (c.st.failedCardsLevel2 = << >> /\ c.st.failedCardsLevel1 = << >> /\ c.st.heap = << >>) =>
      updateNextCard(c.st, c.seed, c.mode) =
        IF c.mode = UpdateCurrentCard \/ c.st.currentCard = NoCard
        THEN [c.st EXCEPT !.phase = COMPLETE, !.currentCard = NoCard, !.nextCard = NoCard]
        ELSE [c.st EXCEPT !.nextCard = NoCard]

\* the last card is passed and the review completes; and in the same state a
\* load of no cards only clears the next card
C8_Witness ==
  /\ InAnswerPhase
  /\ \E c \in UpdateCalls :
       /\ c.answered /\ Pool(c.st) = << >> /\ c.st.currentCard # NoCard
       /\ updateNextCard(c.st, c.seed, c.mode).phase = COMPLETE
  /\ \E c \in UpdateCalls :
       /\ c.mode = ReplaceNextCard /\ Pool(c.st) = << >> /\ c.st.currentCard # NoCard
       /\ updateNextCard(c.st, c.seed, c.mode).phase = state.phase
       /\ updateNextCard(c.st, c.seed, c.mode).currentCard = state.currentCard

\* the pool that a REVIEW_LOADED action leaves the state with
LoadedPool(a) == Pool(loadIntermediate(state, a))

\* C9 as stated: after REVIEW_LOADED, in whatever phase it arrives, the phase
\* is Question if a current card now exists; it is Complete if the pool is
\* empty and no current card existed, and Idle instead of Complete when the
\* action is flagged as the initial load.  (Stated for the phases other than
\* Idle, in which updateHeap loads no cards.)
C9_Original ==
  \A a \in LoadsOf(state) :
    LET r == review(state, a)
    IN /\ (state.phase # IDLE /\ r.currentCard # NoCard) => r.phase = QUESTION
       /\ (LoadedPool(a) = << >> /\ state.currentCard = NoCard) =>
            r.phase = IF a.initialReview THEN IDLE ELSE COMPLETE

\* C9 (amended): after REVIEW_LOADED, if a current card now exists the phase
\* is Question when the action arrived in Loading, Complete or Question, and
\* is the phase of before when it arrived in Answer or Idle; if the pool is
\* empty and no current card existed the phase is Complete, and Idle instead
\* of Complete when the action is flagged as the initial load.
C9_LoadedPhase ==
  \A a \in LoadsOf(state) :
    LET r == review(state, a)
    IN /\ r.currentCard # NoCard =>
            r.phase = IF state.phase \in {LOADING, COMPLETE, QUESTION}
                      THEN QUESTION ELSE state.phase
       /\ (LoadedPool(a) = << >> /\ state.currentCard = NoCard) =>
            /\ r.currentCard = NoCard
            /\ r.phase = IF a.initialReview THEN IDLE ELSE COMPLETE

\* the review is showing an answer when cards are loaded and goes on showing
\* it; it was reached from a completed or loading review that the load of
\* cards took to Question
C9_Witness ==
  /\ state.phase = ANSWER
  /\ state.currentCard # NoCard
  /\ \E a \in LoadsOf(state) :
       /\ a.cards # << >>
       /\ review(state, a).phase = ANSWER
       /\ review(state, a).currentCard = state.currentCard

\* a completed review is loaded: with cards it goes to Question, without
\* cards it stays Complete, or goes to Idle on the initial load
C9_WitnessComplete ==
  /\ state.phase = COMPLETE
  /\ state.currentCard = NoCard
  /\ \E a \in LoadsOf(state) :
       a.cards # << >> /\ review(state, a).phase = QUESTION
  /\ \E a \in LoadsOf(state) :
       LoadedPool(a) = << >> /\ ~a.initialReview /\ review(state, a).phase = COMPLETE
  /\ \E a \in LoadsOf(state) :
       LoadedPool(a) = << >> /\ a.initialReview /\ review(state, a).phase = IDLE

\* the call of updateNextCard that replaces the next card in REVIEW_LOADED
ReplaceCall(a) ==
  [st |-> loadIntermediate(state, a), seed |-> a.nextCardSeed,
   mode |-> ReplaceNextCard, answered |-> FALSE]

\* the card selected from the pool of a call: the pick at the seed index,
\* shifted off the current card, null when there is no other card
Selected(c) ==
  LET pool == SelectionPool(c)
      n == Len(pool)
  IN IF n = 0 THEN NoCard
     ELSE IF PickOf(c).ref # CurrentOf(c).ref THEN PickOf(c)
     ELSE IF n = 1 THEN NoCard
     ELSE pool[Shifted(Floor(c.seed, n), n) + 1]

\* C10: REVIEW_LOADED never replaces an existing current card: for every
\* state with a non-null currentCard and every list of loaded cards and
\* seeds, currentCard after the action is currentCard of before, and nextCard
\* is selected again from the new pool (the failed queues and the cards of
\* the action), whatever nextCard was before.
C10_LoadKeepsCurrent ==
  \A a \in LoadsOf(state) :
    LET r == review(state, a)
    IN state.currentCard # NoCard =>
         /\ r.currentCard = state.currentCard
         /\ r.nextCard = Selected(ReplaceCall(a))
         /\ r.nextCard # NoCard => Holds(LoadedPool(a), r.nextCard)
         /\ r.heap = a.cards

\* a review with a current card and a next card is loaded with other cards:
\* the next card of before is not in the new pool and is replaced
C10_Witness ==
  /\ state.currentCard # NoCard
  /\ state.nextCard # NoCard
  /\ \E a \in LoadsOf(state) :
       /\ ~Holds(LoadedPool(a), state.nextCard)
       /\ review(state, a).nextCard # NoCard
       /\ review(state, a).nextCard.id # state.nextCard.id
       /\ review(state, a).currentCard = state.currentCard

\* the actions that change the limits and the time of the review
SetLimit(l) == [type |-> "SET_REVIEW_LIMIT", maxCards |-> l[1], maxNewCards |-> l[2]]
SetTime(t) == [type |-> "SET_REVIEW_TIME", reviewTime |-> t]

\* C11 as stated: SET_REVIEW_LIMIT and SET_REVIEW_TIME, dispatched in any
\* phase, put the session in the Loading phase.
C11_Original ==
  /\ \A l \in LimitPairs : review(state, SetLimit(l)).phase = LOADING
  /\ \A t \in Times : review(state, SetTime(t)).phase = LOADING

\* C11 (amended): SET_REVIEW_LIMIT in any phase puts the session in the
\* Loading phase and sets maxCards and maxNewCards, nothing else;
\* SET_REVIEW_TIME sets reviewTime and leaves the phase and every other field
\* as they were.
C11_LimitLoadsTimeKeeps ==
  /\ \A l \in LimitPairs :
       review(state, SetLimit(l)) =
         [state EXCEPT !.phase = LOADING, !.maxCards = l[1], !.maxNewCards = l[2]]
  /\ \A t \in Times :
       review(state, SetTime(t)) = [state EXCEPT !.reviewTime = t]

\* an answer is shown when the time and the limits change: the change of the
\* time keeps the Answer phase, the change of the limits goes to Loading
C11_Witness ==
  /\ state.phase = ANSWER
  /\ state.currentCard # NoCard
  /\ \E t \in Times :
       /\ t # state.reviewTime
       /\ review(state, SetTime(t)).phase = ANSWER
       /\ review(state, SetTime(t)).reviewTime = t
  /\ \E l \in LimitPairs : review(state, SetLimit(l)).phase = LOADING

Cancel == [type |-> "CANCEL_REVIEW"]

\* C12: CANCEL_REVIEW in Loading, Question or Answer yields phase Idle with
\* maxCards, maxNewCards, completed and newCardsInPlay zero, heap, both
\* failed queues and history empty and currentCard and nextCard null (the
\* other fields as before); in Idle or Complete it returns the state
\* unchanged.
C12_CancelReview ==
  LET r == review(state, Cancel)
  IN IF state.phase \in {LOADING, QUESTION, ANSWER}
     THEN /\ r.phase = IDLE
          /\ r.maxCards = 0 /\ r.maxNewCards = 0
          /\ r.completed = 0 /\ r.newCardsInPlay = 0
          /\ r.heap = << >> /\ r.failedCardsLevel1 = << >>
          /\ r.failedCardsLevel2 = << >> /\ r.history = << >>
          /\ r.currentCard = NoCard /\ r.nextCard = NoCard
          /\ r.reviewTime = state.reviewTime
          /\ r.availableCards = state.availableCards
          /\ r.savingProgress = state.savingProgress
          /\ r.loadingAvailableCards = state.loadingAvailableCards
     ELSE r = state

\* a review in progress, with a failed card, a card in the history and a
\* next card, is cancelled
C12_Witness ==
  /\ state.phase \in {QUESTION, ANSWER}
  /\ state.currentCard # NoCard
  /\ state.nextCard # NoCard
  /\ state.history # << >>
  /\ state.failedCardsLevel2 # << >>
  /\ state.maxCards > 0
  /\ review(state, Cancel).phase = IDLE
  /\ review(state, Cancel).history = << >>

\* a completed review with limits and completed cards is not cancelled
C12_WitnessComplete ==
  /\ state.phase = COMPLETE
  /\ state.maxCards > 0
  /\ state.completed > 0
  /\ review(state, Cancel) = state

\* ------------------------------------------------------------------- C13
Delete(id, seed) == [type |-> "DELETE_REVIEW_CARD", id |-> id, nextCardSeed |-> seed]

\* a card with the id is the current card, the next card or in an array
HasId(st, id) == \E c \in AllCards(st) : c.id = id

\* C13: after DELETE_REVIEW_CARD(id) no card with that id remains in
\* currentCard, nextCard, heap, failedCardsLevel1, failedCardsLevel2 or
\* history; if the card was neither currentCard nor nextCard, then
\* currentCard, nextCard and phase are unchanged, and if the id occurs
\* nowhere the state is unchanged.
C13_DeletedCardGone ==
  \A id \in CardIds, seed \in Seeds :
    LET r == review(state, Delete(id, seed))
    IN /\ ~HasId(r, id)
       /\ (state.currentCard.id # id /\ state.nextCard.id # id) =>
            /\ r.currentCard = state.currentCard
            /\ r.nextCard = state.nextCard
            /\ r.phase = state.phase
       /\ ~HasId(state, id) => r = state

\* the current card was loaded again while it was shown, the copy is the next
\* card, and deleting the card's id leaves the current card in place
C13_Witness ==
  \E id \in CardIds, seed \in Seeds :
    LET r == review(state, Delete(id, seed))
    IN /\ state.currentCard.id = id
       /\ state.nextCard.id = id
       /\ state.nextCard.ref # state.currentCard.ref
       /\ r.currentCard = state.currentCard
       /\ r.nextCard.id # id

\* ------------------------------------------------------------------- C14
UpdatedCards(st) ==
  {StoreCard(NewRef(st, 0), NewProg(st, 0), id, 1, pr) :
     id \in CardIds, pr \in StoreProgress}

UpdateCard(card) == [type |-> "UPDATE_REVIEW_CARD", card |-> card]

\* the card c after the update: the new card where the id is the same
Replaced(c, card) == IF c # NoCard /\ c.id = card.id THEN card ELSE c

ReplacedIn(arr, card) == [j \in 1..Len(arr) |-> Replaced(arr[j], card)]

\* C14: UPDATE_REVIEW_CARD replaces every occurrence of the card with the
\* given id in currentCard, nextCard, heap, failedCardsLevel1,
\* failedCardsLevel2 and history by the new card and changes nothing else:
\* the phase, the counters and the length and order of every queue are the
\* same; when the id occurs nowhere the state is unchanged.
C14_UpdateReplacesEverywhere ==
  \A card \in UpdatedCards(state) :
    LET r == review(state, UpdateCard(card))
    IN /\ r = [state EXCEPT
                 !.currentCard = Replaced(state.currentCard, card),
                 !.nextCard = Replaced(state.nextCard, card),
                 !.heap = ReplacedIn(state.heap, card),
                 !.failedCardsLevel1 = ReplacedIn(state.failedCardsLevel1, card),
                 !.failedCardsLevel2 = ReplacedIn(state.failedCardsLevel2, card),
                 !.history = ReplacedIn(state.history, card)]
       /\ \A c \in AllCards(r) : c.id = card.id => c = card
       /\ ~HasId(state, card.id) => r = state

\* a card that is in the history and in a failed queue is updated, and
\* another card of the review is left alone
C14_Witness ==
  \E card \in UpdatedCards(state) :
    LET r == review(state, UpdateCard(card))
    IN /\ \E i \in 1..Len(state.history) : state.history[i].id = card.id
       /\ \E i \in 1..Len(state.failedCardsLevel1) :
            state.failedCardsLevel1[i].id = card.id
       /\ \E c \in AllCards(state) : c.id # card.id
       /\ r # state

\* ------------------------------------------------------------------- C15
\* C15: in every reachable review state the current card is not in the
\* history and no card is in the history twice (a card shown again keeps
\* only its most recent occurrence); a card is the card of an _id, whichever
\* object holds it.
C15_HistoryWithoutCurrent ==
  /\ \A i \in 1..Len(state.history) : state.history[i].id # state.currentCard.id
  /\ \A i, j \in 1..Len(state.history) :
       state.history[i].id = state.history[j].id => i = j

\* the card that was just passed is shown again through the object a second
\* REVIEW_LOADED made for it, and its answered copy is in the history
C15_Witness ==
  /\ state.currentCard # NoCard
  /\ \E i \in 1..Len(state.history) :
       /\ state.history[i].id = state.currentCard.id
       /\ state.history[i].ref # state.currentCard.ref
       /\ state.history[i].reviewed = state.reviewTime

\* ------------------------------------------------------------------- C16
\* The progress of a card as the reviews before have left it: a new card
\* (level 0, never reviewed), or any level with the time of the last review
\* (level 0 for a card that was failed).
Progresses(reviewTime) ==
  {[level |-> 0, reviewed |-> NoTime]} \cup
  {[level |-> l, reviewed |-> t] : l \in 0..MaxLevel, t \in 0..reviewTime}

\* A review that shows its last card: the card is in failedCardsLevel2, in
\* failedCardsLevel1 or in no queue.
PassStates ==
  {[initialState EXCEPT
      !.phase = ph, !.reviewTime = rt, !.maxCards = 1, !.maxNewCards = 1,
      !.currentCard = StoreCard(0, 0, 1, 1, pr),
      !.failedCardsLevel1 = IF q = 1 THEN << StoreCard(0, 0, 1, 1, pr) >> ELSE << >>,
      !.failedCardsLevel2 = IF q = 2 THEN << StoreCard(0, 0, 1, 1, pr) >> ELSE << >>] :
     ph \in {QUESTION, ANSWER}, rt \in 0..MaxPassTime, q \in 0..2,
     pr \in UNION {Progresses(t) : t \in 0..MaxPassTime}}

InitPass ==
  /\ steps = 0
  /\ saga = NoSaga
  /\ sync = NoSync
  /\ store = NoStore
  /\ RestClosed
  /\ state \in {st \in PassStates :
                  st.currentCard.reviewed = NoTime
                    \/ st.currentCard.reviewed <= st.reviewTime}

NextPass == PassCard

SpecPass == InitPass /\ [][NextPass]_vars

\* PASS_CARD finishes the current card: the card is shown and is not in
\* failedCardsLevel2
PassCompletes ==
  /\ InAnswerPhase
  /\ state.currentCard # NoCard
  /\ ~Holds(state.failedCardsLevel2, state.currentCard)

\* twice the days since the last review, in ticks of the level unit; nothing
\* for a card that was never reviewed
DaysTwice(card) ==
  IF card.reviewed = NoTime THEN 0
  ELSE 2 * LevelDen * (state.reviewTime - card.reviewed)

Max3(a, b, c) == Max({a, b, c})

\* C16 as stated: when a Pass completes a card (it is not in
\* failedCardsLevel2) the new level is at least 0.5, never lower than the
\* level before, and is max(previous level, 2 * days since the last review,
\* 0.5).
C16_Original ==
  PassCompletes =>
    \A seed \in Seeds :
      LET r == review(state, Pass(seed))
          card == Last(r.history)
      IN /\ 2 * card.level >= LevelDen
         /\ card.level >= state.currentCard.level
         /\ card.level * TicksPerDay =
              Max3(state.currentCard.level * TicksPerDay,
                   DaysTwice(state.currentCard),
                   (LevelDen * TicksPerDay) \div 2)

\* C16: when a Pass completes a card (it is not in failedCardsLevel2) whose
\* level is not 0 and which has a time of last review, the new level is
\* max(previous level, 2 * days since the last review, 0.5), so at least 0.5
\* and never lower than before; for every other card (new, or reset to level
\* 0) the new level is 0.5.  The time of last review becomes the review time.
C16_PassedLevel ==
  PassCompletes =>
    \A seed \in Seeds :
      LET r == review(state, Pass(seed))
          card == Last(r.history)
          before == state.currentCard
      IN /\ card.id = before.id
         /\ card.reviewed = state.reviewTime
         /\ 2 * card.level >= LevelDen
         /\ IF before.level # 0 /\ before.reviewed # NoTime
            THEN /\ card.level >= before.level
                 /\ card.level * TicksPerDay =
                      Max3(before.level * TicksPerDay, DaysTwice(before),
                           (LevelDen * TicksPerDay) \div 2)
            ELSE 2 * card.level = LevelDen

\* a reviewed card is passed after more than half its level in days: twice
\* the interval is its new level
C16_Witness ==
  /\ PassCompletes
  /\ state.currentCard.level # 0
  /\ state.currentCard.reviewed # NoTime
  /\ \E seed \in Seeds :
       LET card == Last(review(state, Pass(seed)).history)
       IN /\ card.level > state.currentCard.level
          /\ card.level * TicksPerDay = DaysTwice(state.currentCard)

\* a card that was reset to level 0 is passed more than a quarter of a day
\* after its last review: its new level is 0.5
C16_WitnessReset ==
  /\ PassCompletes
  /\ state.currentCard.level = 0
  /\ state.currentCard.reviewed # NoTime
  /\ 2 * DaysTwice(state.currentCard) > LevelDen * TicksPerDay
  /\ \E seed \in Seeds :
       2 * Last(review(state, Pass(seed)).history).level = LevelDen

\* =========================================== the review document's conflicts
\* The callback that ReviewStore.onSyncChange hands to resolveConflicts: of
\* the two revisions a and b of the review document, the one to keep.

\* mutant of resolveReview: a finished revision is the one that is kept
resolveReviewKeepsFinished(a, b) ==
  IF b.finished THEN b
  ELSE IF a.finished THEN a
  ELSE IF Len(b.history) = 0 /\ Len(a.history) # 0 THEN a
  ELSE IF Len(a.history) = 0 /\ Len(b.history) # 0 THEN b
  ELSE IF a.modified >= b.modified THEN a ELSE b

\* mutant of resolveReview: the histories are not looked at
resolveReviewByModified(a, b) ==
  IF b.finished THEN a
  ELSE IF a.finished THEN b
  ELSE IF a.modified >= b.modified THEN a ELSE b

resolveReview(a, b) ==
  IF b.finished THEN a
  ELSE IF a.finished THEN b
  ELSE IF Len(b.history) = 0 /\ Len(a.history) # 0 THEN a
  ELSE IF Len(a.history) = 0 /\ Len(b.history) # 0 THEN b
  ELSE IF a.modified >= b.modified THEN a ELSE b

\* the revisions of the review document: rev tells the two revisions of a
\* conflict apart, the history holds ids of answered cards
Revisions(rev) ==
  {[rev |-> rev, finished |-> f, history |-> h, modified |-> t] :
     f \in BOOLEAN, h \in UNION {[1..n -> {1}] : n \in 0..MaxHistory},
     t \in 0..MaxModified}

InitSync ==
  /\ state = initialState
  /\ steps = 0
  /\ saga = NoSaga
  /\ store = NoStore
  /\ RestClosed
  /\ \E a \in Revisions(1), b \in Revisions(2) :
       sync = [resolved |-> FALSE, a |-> a, b |-> b, winner |-> a]

\* onSyncChange finds the conflict and resolves it
OnSyncChange ==
  /\ ~sync.resolved
  /\ sync' = [sync EXCEPT !.resolved = TRUE,
                          !.winner = resolveReview(sync.a, sync.b)]
  /\ UNCHANGED << state, steps, saga, store, Rest >>

NextSync == OnSyncChange

SpecSync == InitSync /\ [][NextSync]_vars

\* ------------------------------------------------------------------- C19
\* C19 as stated: when the two conflicting revisions differ in finished, the
\* resolver picks the finished one.
C19_Original ==
  (sync.resolved /\ sync.a.finished # sync.b.finished) => sync.winner.finished

\* C19: when the two conflicting revisions differ in finished, the resolver
\* picks the one that is not finished ("If either review is finished, use the
\* other"); when both are finished it picks the first.
C19_KeepsUnfinished ==
  sync.resolved =>
    /\ sync.winner \in {sync.a, sync.b}
    /\ sync.a.finished # sync.b.finished => ~sync.winner.finished
    /\ (sync.a.finished /\ sync.b.finished) => sync.winner = sync.a

\* the first revision is finished and is the newer one with the longer
\* history, and the second, unfinished one is kept
C19_Witness ==
  /\ sync.resolved
  /\ sync.a.finished /\ ~sync.b.finished
  /\ sync.a.modified > sync.b.modified
  /\ Len(sync.a.history) > Len(sync.b.history)
  /\ sync.winner = sync.b

\* ------------------------------------------------------------------- C20
\* C20: when neither conflicting revision is finished, the resolver picks the
\* one with a non-empty history if exactly one of them has an empty history,
\* and otherwise the one with the larger modified timestamp (the first one
\* when the timestamps are equal).
C20_HistoryThenModified ==
  (sync.resolved /\ ~sync.a.finished /\ ~sync.b.finished) =>
    IF (Len(sync.a.history) = 0) # (Len(sync.b.history) = 0)
    THEN /\ sync.winner \in {sync.a, sync.b}
         /\ Len(sync.winner.history) # 0
    ELSE IF sync.a.modified > sync.b.modified THEN sync.winner = sync.a
    ELSE IF sync.b.modified > sync.a.modified THEN sync.winner = sync.b
    ELSE sync.winner = sync.a

\* the older revision is the only one with a history, and it is kept
C20_Witness ==
  /\ sync.resolved
  /\ ~sync.a.finished /\ ~sync.b.finished
  /\ Len(sync.a.history) = 0 /\ Len(sync.b.history) # 0
  /\ sync.a.modified > sync.b.modified
  /\ sync.winner = sync.b

\* both revisions have a history, and the newer one is kept
C20_WitnessModified ==
  /\ sync.resolved
  /\ ~sync.a.finished /\ ~sync.b.finished
  /\ Len(sync.a.history) # 0 /\ Len(sync.b.history) # 0
  /\ sync.b.modified > sync.a.modified
  /\ sync.winner = sync.b

\* ================================================= the updateProgress saga
\* takeEvery(['PASS_CARD', 'FAIL_CARD'], updateProgress): the store reduces
\* the action, then a task of updateProgress is forked and runs to its first
\* call of the card store.  saga.tasks are the tasks that wait for the card
\* store, saga.alive tells that the review sagas still take actions,
\* saga.crashed that a task has thrown an error nobody caught, and
\* saga.logged that a failed write was logged.
InitSaga ==
  /\ state = initialState
  /\ steps = 0
  /\ saga = NoSaga
  /\ sync = NoSync
  /\ store = NoStore
  /\ RestClosed

\* the card whose progress updateProgress writes, << >> when it is undefined
\* (the last element of an empty history) or null
progressCard(st, type) ==
  LET isLastCard == st.nextCard = NoCard
      card == IF isLastCard /\ type = "FAIL_CARD" THEN << st.currentCard >>
              ELSE IF st.history = << >> THEN << >>
              ELSE << Last(st.history) >>
  IN IF card = << NoCard >> THEN << >> ELSE card

\* `progress: card.progress`: the progress that putCard is called with
savedProgress(card) == [level |-> card.level, reviewed |-> card.reviewed]

\* the card that the action answers, as PASS_CARD or FAIL_CARD updates it
answeredCard(st, type) ==
  IF type = "PASS_CARD" THEN passIntermediate(st).currentCard
  ELSE failIntermediate(st).currentCard

\* updateProgress from its start to the call of putCard; reading card._id of
\* no card throws outside the try block
forkUpdateProgress(sg, st, type, answered) ==
  IF ~sg.alive THEN {sg}
  ELSE IF progressCard(st, type) = << >>
  THEN {[sg EXCEPT !.crashed = TRUE],
        [sg EXCEPT !.crashed = TRUE, !.alive = FALSE, !.tasks = << >>]}
  ELSE {[sg EXCEPT !.tasks =
           Append(@, [pc |-> "putCard",
                      id |-> progressCard(st, type)[1].id,
                      progress |-> savedProgress(progressCard(st, type)[1]),
                      answered |-> answered])]}

\* the user answers the card that is shown: the reducer takes the action
\* and updateProgress is forked on the new state
DispatchAnswer(reduced, type) ==
  \E next \in {Canon(reduced)} :
    /\ InBounds(next)
    /\ state' = next
    /\ steps' = steps + 1
    /\ saga' \in forkUpdateProgress(saga, next, type,
                     [id |-> answeredCard(state, type).id,
                      progress |-> savedProgress(answeredCard(state, type))])
    /\ UNCHANGED << sync, store, Rest >>

PassCardSaved ==
  /\ steps < MaxSagaSteps
  /\ answerAccepted(state)
  /\ \E seed \in Seeds : DispatchAnswer(passCard(state, seed), "PASS_CARD")

FailCardSaved ==
  /\ steps < MaxSagaSteps
  /\ answerAccepted(state)
  /\ \E seed \in Seeds : DispatchAnswer(failCard(state, seed), "FAIL_CARD")

\* putCard resolves or rejects: in both branches FINISH_UPDATE_PROGRESS is
\* put and the task goes on to putReview
PutCardSettles ==
  \E i \in 1..Len(saga.tasks), ok \in BOOLEAN :
    /\ saga.tasks[i].pc = "putCard"
    /\ state' = finishUpdateProgress(state)
    /\ saga' = [saga EXCEPT !.tasks[i].pc = "putReview",
                            !.logged = @ \/ ~ok]
    /\ UNCHANGED << steps, sync, store, Rest >>

\* putReview resolves or rejects and the task ends
PutReviewSettles ==
  \E i \in 1..Len(saga.tasks) :
    /\ saga.tasks[i].pc = "putReview"
    /\ saga' = [saga EXCEPT !.tasks = splice(@, i)]
    /\ UNCHANGED << state, steps, sync, store, Rest >>

NextSaga ==
  \/ NewReview
  \/ ReviewLoaded
  \/ ShowAnswer
  \/ PassCardSaved
  \/ FailCardSaved
  \/ PutCardSettles
  \/ PutReviewSettles

\* every call of the card store settles
SpecSaga ==
  InitSaga /\ [][NextSaga]_vars /\ WF_vars(PutCardSettles) /\ WF_vars(PutReviewSettles)

\* ------------------------------------------------------------------- C17
\* C17: for every accepted PASS_CARD or FAIL_CARD, FINISH_UPDATE_PROGRESS is
\* eventually dispatched whether the write of the progress succeeds or fails,
\* so savingProgress eventually returns to false.
C17_SavingEnds == state.savingProgress ~> ~state.savingProgress

\* what the tasks that reach putCard do: while no task has thrown,
\* savingProgress returns to false whether the write succeeds or fails
C17_SavingEndsUnlessCrashed ==
  (state.savingProgress /\ ~saga.crashed) ~> (~state.savingProgress \/ saga.crashed)

\* the last card was failed and then passed: the history is empty, the task
\* of the PASS_CARD has thrown, no other task is left and savingProgress is
\* true
C17_Witness ==
  /\ saga.crashed
  /\ saga.tasks = << >>
  /\ state.savingProgress
  /\ state.history = << >>
  /\ state.nextCard = NoCard
  /\ Holds(state.failedCardsLevel1, state.currentCard)

\* ------------------------------------------------------------------- C31
\* C31: after each accepted PASS_CARD or FAIL_CARD, the progress that
\* updateProgress writes to the store is the progress of the card that was
\* just answered (its id, level and review time as the answer left them),
\* also when that card was the last card of the pool and is shown again at
\* once.
C31_SavesAnsweredCard ==
  \A i \in 1..Len(saga.tasks) :
    saga.tasks[i].pc = "putCard" =>
      /\ saga.tasks[i].id = saga.tasks[i].answered.id
      /\ saga.tasks[i].progress = saga.tasks[i].answered.progress

\* the last card of the pool was answered and is the current card again
\* with no next card, and the task waits for putCard with that card
C31_Witness ==
  /\ saga.tasks # << >>
  /\ Last(saga.tasks).pc = "putCard"
  /\ state.nextCard = NoCard
  /\ state.currentCard # NoCard
  /\ state.currentCard.id = Last(saga.tasks).answered.id
  /\ Last(saga.tasks).id = Last(saga.tasks).answered.id

\* ------------------------------------------------------------------- C32
\* C32: savingProgress is true in every state in which a write of progress
\* started by a PASS_CARD or FAIL_CARD has not been acknowledged yet, also
\* when several answers are given before the first write completes.
C32_SavingWhileWriting ==
  (\E i \in 1..Len(saga.tasks) : saga.tasks[i].pc = "putCard")
    => state.savingProgress

\* two answers were given and neither write has been acknowledged
C32_Witness ==
  /\ Len(saga.tasks) >= 2
  /\ saga.tasks[1].pc = "putCard"
  /\ saga.tasks[2].pc = "putCard"
  /\ state.savingProgress

\* ================================================ the card store's changes
\* One card of the CardStore: its card document and its progress document
\* (rev 0: the document was never put), the mutation whose second write is
\* still to come (op), the finished mutations (log), whether every mutation
\* began after the changes of the earlier ones were handled (settled), the
\* change notifications the database has not delivered yet (feed), the calls
\* of onChange that wait for their lookup (handlers), returnedCards[id] and
\* the 'card' events emitted so far.
NoDoc == [rev |-> 0, deleted |-> FALSE]

InitStore ==
  /\ state = initialState
  /\ steps = 0
  /\ saga = NoSaga
  /\ sync = NoSync
  /\ store = [open |-> TRUE, card |-> NoDoc, progress |-> NoDoc,
              op |-> "idle", log |-> << >>, settled |-> TRUE, feed |-> << >>, handlers |-> << >>,
              returnedCards |-> [cardRev |-> 0, progressRev |-> 0],
              events |-> << >>]
  /\ RestClosed

ChangeOf(doc, d) == [doc |-> doc, rev |-> d.rev, deleted |-> d.deleted]

\* a write of the card document, its change notification, and the mutation
\* goes on to its write of the progress document
WriteCard(deleted, op) ==
  \E d \in {[rev |-> store.card.rev + 1, deleted |-> deleted]} :
    store' = [store EXCEPT !.card = d, !.op = op,
                           !.settled = @ /\ store.feed = << >> /\ store.handlers = << >>,
                           !.feed = Append(@, ChangeOf("card", d))]

\* the write of the progress document that ends a mutation
WriteProgress(deleted) ==
  \E d \in {[rev |-> store.progress.rev + 1, deleted |-> deleted]} :
    store' = [store EXCEPT !.progress = d, !.op = "idle", !.log = Append(@, store.op),
                           !.feed = Append(@, ChangeOf("progress", d))]

Others == << state, steps, saga, sync, Rest >>

\* _putNewCard: db.put of the card document ...
PutNewCard ==
  /\ store.op = "idle" /\ Len(store.log) < MaxMutations
  /\ store.card.rev = 0
  /\ WriteCard(FALSE, "create")
  /\ UNCHANGED Others

\* ... and db.put of its progress document
PutNewProgress ==
  /\ store.op = "create"
  /\ WriteProgress(FALSE)
  /\ UNCHANGED Others

\* putCard of a card that has an id, with new content and new progress:
\* _updateCard ...
PutCard ==
  /\ store.op = "idle" /\ Len(store.log) < MaxMutations
  /\ store.card.rev # 0 /\ ~store.card.deleted
  /\ WriteCard(FALSE, "update")
  /\ UNCHANGED Others

\* ... and _updateProgress
PutCardProgress ==
  /\ store.op = "update"
  /\ WriteProgress(FALSE)
  /\ UNCHANGED Others

\* deleteCard: the card document is deleted ...
DeleteCardDoc ==
  /\ store.op = "idle" /\ Len(store.log) < MaxMutations
  /\ store.card.rev # 0 /\ ~store.card.deleted
  /\ WriteCard(TRUE, "delete")
  /\ UNCHANGED Others

\* ... and the progress document
DeleteProgress ==
  /\ store.op = "delete"
  /\ WriteProgress(TRUE)
  /\ UNCHANGED Others

alreadyReturnedCard(returned, change) ==
  IF change.doc = "card" THEN returned.cardRev = change.rev
  ELSE returned.progressRev = change.rev

\* onChange from its call to its first await: the change of a deleted card is
\* reported at once, the change of a deleted progress document is dropped,
\* and every other change waits for the lookup of the other document
onChangeSync(st, change) ==
  IF change.doc = "card" /\ change.deleted
  THEN IF alreadyReturnedCard(st.returnedCards, change) THEN st
       ELSE [st EXCEPT
               !.returnedCards = [cardRev |-> change.rev, progressRev |-> 0],
               !.events = Append(@, [cardRev |-> change.rev, progressRev |-> 0,
                                     deleted |-> TRUE])]
  ELSE IF change.doc = "progress" /\ change.deleted THEN st
  ELSE [st EXCEPT !.handlers = Append(@, [change |-> change, pc |-> "get", found |-> 0])]

\* the database delivers its next change notification
OnChange ==
  /\ store.feed # << >>
  /\ store' = onChangeSync([store EXCEPT !.feed = Tail(@)], Head(store.feed))
  /\ UNCHANGED Others

\* db.get of the other document: the handler returns when the progress
\* document was never put, or when the card document is deleted; a deleted
\* progress document is no progress (found 0)
Lookup ==
  \E i \in 1..Len(store.handlers) :
    LET h == store.handlers[i]
        other == IF h.change.doc = "card" THEN store.progress ELSE store.card
        returns == IF h.change.doc = "card" THEN other.rev = 0
                   ELSE other.rev = 0 \/ other.deleted
    IN /\ h.pc = "get"
       /\ store' = IF returns
                   THEN [store EXCEPT !.handlers = splice(@, i)]
                   ELSE [store EXCEPT
                           !.handlers[i].pc = "got",
                           !.handlers[i].found = IF other.deleted THEN 0 ELSE other.rev]
       /\ UNCHANGED Others

\* onChange after the lookup: nothing if the revision of the change has been
\* returned, else the pair of revisions is remembered and a 'card' event is
\* emitted
onChangeAfterLookup(st, i) ==
  LET h == st.handlers[i]
      cardRev == IF h.change.doc = "card" THEN h.change.rev ELSE h.found
      progressRev == IF h.change.doc = "card" THEN h.found ELSE h.change.rev
  IN IF alreadyReturnedCard(st.returnedCards, h.change)
     THEN [st EXCEPT !.handlers = splice(@, i)]
     ELSE [st EXCEPT
             !.handlers = splice(@, i),
             !.returnedCards = [cardRev |-> cardRev, progressRev |-> progressRev],
             !.events = Append(@, [cardRev |-> cardRev, progressRev |-> progressRev,
                                   deleted |-> FALSE])]

Resume ==
  \E i \in 1..Len(store.handlers) :
    /\ store.handlers[i].pc = "got"
    /\ store' = onChangeAfterLookup(store, i)
    /\ UNCHANGED Others

NextStore ==
  \/ PutNewCard
  \/ PutNewProgress
  \/ PutCard
  \/ PutCardProgress
  \/ DeleteCardDoc
  \/ DeleteProgress
  \/ OnChange
  \/ Lookup
  \/ Resume

SpecStore == InitStore /\ [][NextStore]_vars

\* ------------------------------------------------------------------- C18
\* every mutation has made its writes, every change notification has been
\* delivered and every call of onChange has returned
Quiescent ==
  /\ store.op = "idle"
  /\ store.feed = << >>
  /\ store.handlers = << >>

DeletedEvents == {i \in 1..Len(store.events) : store.events[i].deleted}

\* C18: for every logical mutation through the card store (create, one
\* putCard that updates content and progress, delete) the change handler
\* emits exactly one 'card' event, whatever the interleaving of the change
\* notifications of the card and progress documents and of the lookups; a
\* deletion is reported once, with the deleted flag, and the deletion of the
\* progress document alone emits nothing.  Stated for the mutations that
\* began when the changes of the mutations before were all handled.
C18_OneEventPerMutation ==
  (Quiescent /\ store.settled) =>
    /\ Len(store.events) = Len(store.log)
    /\ Cardinality(DeletedEvents) = IF store.card.deleted THEN 1 ELSE 0

\* what holds of the mutations that write one document after the other
\* without a lookup that can fall between the writes: while no putCard has
\* updated both documents, one event is emitted for each mutation, and a
\* deletion is always reported exactly once, by an event with the deleted
\* flag
C18_OnceWithoutUpdate ==
  Quiescent =>
    /\ (store.settled /\ \A i \in 1..Len(store.log) : store.log[i] # "update")
          => Len(store.events) = Len(store.log)
    /\ Cardinality(DeletedEvents) = IF store.card.deleted THEN 1 ELSE 0

\* a card was created and, when that was reported, updated by one putCard,
\* and three events were emitted: the card document's change was looked up
\* before the progress document was written and reported with the old
\* progress, and the progress document's change was reported after it
C18_Witness ==
  /\ Quiescent
  /\ store.settled
  /\ store.log = << "create", "update" >>
  /\ store.events = << [cardRev |-> 1, progressRev |-> 1, deleted |-> FALSE],
                       [cardRev |-> 2, progressRev |-> 1, deleted |-> FALSE],
                       [cardRev |-> 2, progressRev |-> 2, deleted |-> FALSE] >>

\* ====================================================== the review document
\* ReviewStore: the one document 'review-default' of the database.
\* reviewDoc.doc is << >> while the document does not exist, else << d >>
\* with d.review the summary that was put, d.finished, d.modified and d.rev,
\* the number of writes of the document; reviewDoc.now is Date.now() and
\* reviewDoc.got what the last getReview returned (<< >> is null).
Summaries == 1..MaxSummaries

InitReviewDoc ==
  /\ state = initialState
  /\ steps = 0
  /\ saga = NoSaga
  /\ sync = NoSync
  /\ store = NoStore
  /\ db = NoDb
  /\ watcher = NoWatcher
  /\ reviewDoc = [open |-> TRUE, doc |-> << >>, now |-> 0, got |-> << >>]

DocRev(rd) == IF rd.doc = << >> THEN 0 ELSE rd.doc[1].rev

\* getReview: the summary of the document, null when there is no document
\* or it is finished
getReview(rd) ==
  IF rd.doc # << >> /\ ~rd.doc[1].finished THEN << rd.doc[1].review >> ELSE << >>

\* putReview: upsert of the summary with finished false and modified now
putReview(rd, summary) ==
  [rd EXCEPT !.doc = << [review |-> summary, finished |-> FALSE,
                         modified |-> rd.now, rev |-> DocRev(rd) + 1] >>]

\* mutant of finishReview: a finished document is written again
finishReviewWritesAgain(rd) ==
  IF rd.doc = << >> THEN rd
  ELSE [rd EXCEPT !.doc[1].finished = TRUE, !.doc[1].modified = rd.now,
                  !.doc[1].rev = @ + 1]

\* finishReview: upsert that returns false (nothing is written) when the
\* document has no 'finished' or is finished
finishReview(rd) ==
  IF rd.doc = << >> \/ rd.doc[1].finished THEN rd
  ELSE [rd EXCEPT !.doc[1].finished = TRUE, !.doc[1].modified = rd.now,
                  !.doc[1].rev = @ + 1]

OtherThanReviewDoc == << state, steps, saga, sync, store, db, watcher >>

\* time passes
ReviewClock ==
  /\ reviewDoc.now < MaxClock
  /\ reviewDoc' = [reviewDoc EXCEPT !.now = @ + 1]
  /\ UNCHANGED OtherThanReviewDoc

PutReview ==
  /\ DocRev(reviewDoc) < MaxWrites
  /\ \E summary \in Summaries : reviewDoc' = putReview(reviewDoc, summary)
  /\ UNCHANGED OtherThanReviewDoc

FinishReview ==
  /\ DocRev(reviewDoc) < MaxWrites
  /\ reviewDoc' = finishReview(reviewDoc)
  /\ UNCHANGED OtherThanReviewDoc

GetReview ==
  /\ reviewDoc' = [reviewDoc EXCEPT !.got = getReview(reviewDoc)]
  /\ UNCHANGED OtherThanReviewDoc

NextReviewDoc ==
  \/ ReviewClock
  \/ PutReview
  \/ FinishReview
  \/ GetReview

SpecReviewDoc == InitReviewDoc /\ [][NextReviewDoc]_vars

\* ------------------------------------------------------------------- C21
\* the review document at a later time
Later(rd, t) == [rd EXCEPT !.now = t]

\* C21: finishReview sets finished to true and modified to the time of the
\* call only when a review document exists and is not finished; when the
\* document is finished or absent it writes nothing, so finishReview called
\* twice leaves the document that one call leaves, and getReview returns
\* null afterwards until the next putReview.
C21_FinishReviewOnce ==
  LET f == finishReview(reviewDoc)
  IN /\ IF reviewDoc.doc # << >> /\ ~reviewDoc.doc[1].finished
        THEN f.doc = << [reviewDoc.doc[1] EXCEPT
                           !.finished = TRUE, !.modified = reviewDoc.now,
                           !.rev = @ + 1] >>
        ELSE f = reviewDoc
     /\ \A t \in reviewDoc.now..MaxClock :
          /\ finishReview(Later(f, t)).doc = f.doc
          /\ getReview(Later(f, t)) = << >>
          /\ getReview(finishReview(Later(f, t))) = << >>
          /\ \A summary \in Summaries :
               getReview(putReview(Later(f, t), summary)) = << summary >>

\* a review in progress was finished at an earlier time, and a second
\* finishReview wrote nothing: the document was written twice (put, finish)
\* and getReview has returned null
C21_Witness ==
  /\ reviewDoc.doc # << >>
  /\ reviewDoc.doc[1].finished
  /\ reviewDoc.doc[1].rev = 2
  /\ reviewDoc.doc[1].modified < reviewDoc.now
  /\ finishReview(reviewDoc) = reviewDoc
  /\ reviewDoc.got = << >>

\* ==================================================== the card database
\* CardStore over its database: for every id the documents 'card-<id>' and
\* 'progress-<id>'.  A document is "none" (never written), "live" or
\* "deleted"; rev counts its writes.  Times are in days; NoField stands for
\* a field the document (or an update) does not have.  db.call is the
\* operation of the store that is running and the await it has reached,
\* db.result what the last operation returned or threw.
DbIds == 1..MaxDbCards
NoField == -1
NoCardDoc == [st |-> "none", rev |-> 0, created |-> NoField, modified |-> NoField]
NoProgressDoc == [st |-> "none", rev |-> 0, level |-> NoField, due |-> NoField]
IdleCall == [op |-> "idle", id |-> 0, pc |-> "", content |-> FALSE,
             level |-> NoField, due |-> NoField]
NoResult == [op |-> "none", id |-> 0, status |-> 0, cardRev |-> 0,
             modified |-> NoField, level |-> NoField, due |-> NoField]

InitDb ==
  /\ state = initialState
  /\ steps = 0
  /\ saga = NoSaga
  /\ sync = NoSync
  /\ store = NoStore
  /\ reviewDoc = NoReviewDoc
  /\ watcher = NoWatcher
  /\ db = [open |-> TRUE,
           card |-> [i \in DbIds |-> NoCardDoc],
           progress |-> [i \in DbIds |-> NoProgressDoc],
           now |-> 1, call |-> IdleCall, result |-> NoResult]

OtherThanDb == << state, steps, saga, sync, store, reviewDoc, watcher >>

Revs(d) == LET RECURSIVE sum(_)
               sum(S) == IF S = {} THEN 0
                         ELSE LET i == CHOOSE j \in S : TRUE
                              IN d.card[i].rev + d.progress[i].rev + sum(S \ {i})
           IN sum(DbIds)

Live(doc) == doc.st = "live"

\* mergeDocs: what putCard and getCard return
mergeDocs(op, id, card, progress) ==
  [op |-> op, id |-> id, status |-> 200, cardRev |-> card.rev,
   modified |-> card.modified, level |-> progress.level, due |-> progress.due]

Thrown(op, id, status) == [NoResult EXCEPT !.op = op, !.id = id, !.status = status]

\* ------------------------------------------------------------- _putNewCard
\* tryPutNewCard, the put of the card document under a generated id: a
\* conflict (a live card has the id) is retried with another id
tryPutNewCard(d, id) ==
  IF Live(d.card[id]) THEN d
  ELSE [d EXCEPT !.card[id] = [st |-> "live", rev |-> @.rev + 1,
                               created |-> d.now, modified |-> d.now],
                 !.call = [IdleCall EXCEPT !.op = "putNewCard", !.id = id,
                                           !.pc = "progress"]]

\* the put of the progress document {due: 0, level: 0, ...progress}: without
\* a revision it conflicts with a progress document that exists
putNewProgress(d, id) ==
  IF Live(d.progress[id])
  THEN [d EXCEPT !.call.pc = "remove"]
  ELSE LET progress == [st |-> "live", rev |-> d.progress[id].rev + 1,
                        level |-> 0, due |-> 0]
       IN [d EXCEPT !.progress[id] = progress,
                    !.call = IdleCall,
                    !.result = mergeDocs("putNewCard", id, d.card[id], progress)]

\* mutant of removeNewCard: the card is left in the database
removeNewCardSkipped(d, id) ==
  [d EXCEPT !.call = IdleCall, !.result = Thrown("putNewCard", id, 409)]

\* the catch block: the card just written is removed and the error of the
\* progress put is thrown again
removeNewCard(d, id) ==
  [d EXCEPT !.card[id].st = "deleted", !.card[id].rev = @ + 1,
            !.call = IdleCall, !.result = Thrown("putNewCard", id, 409)]

\* ----------------------------------------------------- putCard with an id
\* mutant of updateCardDoc: the card document is written whatever the update
updateCardDocAlways(d, id, content) ==
  IF ~Live(d.card[id])
  THEN [d EXCEPT !.call = IdleCall, !.result = Thrown("putCard", id, 404)]
  ELSE [d EXCEPT !.card[id].modified = d.now, !.card[id].rev = @ + 1,
                 !.call.pc = "progress"]

\* _updateCard: 404 when the document is missing or deleted; nothing is
\* written when the update has no keys, else modified becomes the time
updateCardDoc(d, id, content) ==
  IF ~Live(d.card[id])
  THEN [d EXCEPT !.call = IdleCall, !.result = Thrown("putCard", id, 404)]
  ELSE IF ~content THEN [d EXCEPT !.call.pc = "progress"]
  ELSE [d EXCEPT !.card[id].modified = d.now, !.card[id].rev = @ + 1,
                 !.call.pc = "progress"]

\* _updateProgress: 404 when the document is missing or deleted; due is
\* taken when the update has a (truthy) due that differs, level when the
\* update has a level that differs; nothing is written without a change
updateProgressDoc(d, id, level, due) ==
  IF ~Live(d.progress[id])
  THEN [d EXCEPT !.call = IdleCall, !.result = Thrown("putCard", id, 404)]
  ELSE LET doc == d.progress[id]
           dueChange == due # NoField /\ due # 0 /\ doc.due # due
           levelChange == level # NoField /\ doc.level # level
           progress == [doc EXCEPT
                          !.due = IF dueChange THEN due ELSE @,
                          !.level = IF levelChange THEN level ELSE @,
                          !.rev = IF dueChange \/ levelChange THEN @ + 1 ELSE @]
       IN [d EXCEPT !.progress[id] = progress,
                    !.call = IdleCall,
                    !.result = mergeDocs("putCard", id, d.card[id], progress)]

\* getCard: db.get of the card, then of the progress
getCard(d, id) ==
  IF ~Live(d.card[id]) \/ ~Live(d.progress[id]) THEN Thrown("getCard", id, 404)
  ELSE mergeDocs("getCard", id, d.card[id], d.progress[id])

\* --------------------------------------------------------------- deleteCard
\* stubbornDelete: the document is fetched and removed, again after a
\* conflict; a document that is not found is left alone
stubbornDelete(doc) ==
  IF Live(doc) THEN [doc EXCEPT !.st = "deleted", !.rev = @ + 1] ELSE doc

\* deleteCard up to its second await
deleteCardDoc(d, id) ==
  [d EXCEPT !.card[id] = stubbornDelete(@),
            !.call = [IdleCall EXCEPT !.op = "deleteCard", !.id = id,
                                      !.pc = "progress"]]

\* mutant of deleteProgressDoc: the progress document is left alone
deleteProgressDocSkipped(d, id) ==
  [d EXCEPT !.call = IdleCall,
            !.result = [NoResult EXCEPT !.op = "deleteCard", !.id = id,
                                        !.status = 200]]

\* deleteCard from its second await
deleteProgressDoc(d, id) ==
  [d EXCEPT !.progress[id] = stubbornDelete(@), !.call = IdleCall,
            !.result = [NoResult EXCEPT !.op = "deleteCard", !.id = id,
                                        !.status = 200]]

\* deleteCard run to its end
deleteCard(d, id) == deleteProgressDoc(deleteCardDoc(d, id), id)

\* ------------------------------------------------------------------ queries
\* db.find on the index of due: the live progress documents in S, by due,
\* then by id
RECURSIVE byDue(_, _)
byDue(d, S) ==
  IF S = {} THEN << >>
  ELSE LET first == CHOOSE i \in S : \A j \in S :
                      \/ d.progress[i].due < d.progress[j].due
                      \/ d.progress[i].due = d.progress[j].due /\ i <= j
       IN << first >> \o byDue(d, S \ {first})

\* overdueCardSelector: due is greater than 0 and at most the review time
overdueCardSelector(d, reviewTime) ==
  {i \in DbIds : /\ Live(d.progress[i])
                 /\ d.progress[i].due # NoField
                 /\ d.progress[i].due > 0
                 /\ d.progress[i].due <= reviewTime}

\* newCardSelector: due is 0
newCardSelector(d) ==
  {i \in DbIds : Live(d.progress[i]) /\ d.progress[i].due = 0}

\* getOverdueness, in units of 1/ScoreUnit: daysOverdue / level, which is
\* Infinity for level 0 and NaN for 0 / 0, plus exp(EXP_FACTOR * daysOverdue)
\* - 1 to the first order
Finite(v) == [kind |-> "number", v |-> v]
Infinity == [kind |-> "Infinity", v |-> 0]
NaN == [kind |-> "NaN", v |-> 0]

getOverdueness(doc, reviewTime) ==
  LET daysOverdue == reviewTime - doc.due
  IN IF doc.level = 0
     THEN IF daysOverdue = 0 THEN NaN ELSE Infinity
     ELSE Finite((ScoreUnit * daysOverdue) \div doc.level
                 + ExpFactor * daysOverdue)

\* the comparator (a, b) => b[0] - a[0] of the sort, as the sort reads it:
\* a NaN difference counts as 0
byOverdueness(a, b) ==
  IF a.kind = "NaN" \/ b.kind = "NaN" THEN 0
  ELSE IF a.kind = "Infinity" /\ b.kind = "Infinity" THEN 0
  ELSE IF b.kind = "Infinity" THEN 1
  ELSE IF a.kind = "Infinity" THEN -1
  ELSE IF b.v > a.v THEN 1
  ELSE IF b.v < a.v THEN -1
  ELSE 0

Orders(seq) ==
  {p \in [1..Len(seq) -> Range(seq)] : \A x \in Range(seq) : \E k \in 1..Len(seq) : p[k] = x}

\* Array.prototype.sort: with a consistent comparator the elements in order,
\* equal ones in their order in the array; with an inconsistent one the
\* order is left to the implementation
sort(ids, score) ==
  LET n == Len(ids)
      at(p, x) == CHOOSE k \in 1..n : p[k] = x
      consistent == \A a, b, c \in Range(ids) :
                      byOverdueness(score[a], score[b]) = 0
                        /\ byOverdueness(score[b], score[c]) = 0
                      => byOverdueness(score[a], score[c]) = 0
      sorted(p) == \A a, b \in Range(ids) :
                     at(p, a) < at(p, b) =>
                       \/ byOverdueness(score[a], score[b]) < 0
                       \/ /\ byOverdueness(score[a], score[b]) = 0
                          /\ at(ids, a) < at(ids, b)
  IN IF consistent THEN {p \in Orders(ids) : sorted(p)}
     ELSE Orders(ids)

\* the truncation 'limit >= 0 && limit < length'; NoField is no limit
truncate(seq, limit) ==
  IF limit # NoField /\ limit >= 0 /\ limit < Len(seq)
  THEN SubSeq(seq, 1, limit) ELSE seq

\* getCardsFromProgressDocs: the progress documents whose card document is
\* there and not deleted, merged with it
getCardsFromProgressDocs(d, ids) ==
  SelectSeq(ids, LAMBDA i : Live(d.card[i]))

\* getOverdueCards: the results the call can have, each the ids of the cards
\* returned, in order
getOverdueCards(d, reviewTime, limit, skipFailedCards) ==
  LET found == byDue(d, overdueCardSelector(d, reviewTime))
      kept == SelectSeq(found, LAMBDA i :
                ~(skipFailedCards /\ d.progress[i].level = 0
                                  /\ d.progress[i].due # 0))
      score == [i \in DbIds |-> getOverdueness(d.progress[i], reviewTime)]
  IN {getCardsFromProgressDocs(d, truncate(p, limit)) : p \in sort(kept, score)}

\* the cards in order of creation (cards.sort by created), equal ones in
\* their order in the array
RECURSIVE byCreated(_, _)
byCreated(d, ids) ==
  IF ids = << >> THEN << >>
  ELSE LET k == CHOOSE k \in 1..Len(ids) : \A j \in 1..Len(ids) :
                  \/ d.card[ids[k]].created < d.card[ids[j]].created
                  \/ d.card[ids[k]].created = d.card[ids[j]].created /\ k <= j
       IN << ids[k] >> \o
          byCreated(d, SubSeq(ids, 1, k - 1) \o SubSeq(ids, k + 1, Len(ids)))

\* getNewCards
getNewCards(d, limit) ==
  truncate(byCreated(d, getCardsFromProgressDocs(d, byDue(d, newCardSelector(d)))),
         limit)

\* getAvailableCards: the lengths of the two db.find results
getAvailableCards(d, reviewTime) ==
  [newCards |-> Cardinality(newCardSelector(d)),
   overdueCards |-> Cardinality(overdueCardSelector(d, reviewTime))]

\* ------------------------------------------------------------------ actions
Idle == db.call.op = "idle"

\* time passes
DbClock ==
  /\ Idle
  /\ db.now < MaxDbNow
  /\ db' = [db EXCEPT !.now = @ + 1]
  /\ UNCHANGED OtherThanDb

\* replication brings a document of another database, document by
\* document: a progress document or a card document
DbReplicate ==
  /\ Revs(db) < MaxDbWrites
  /\ \E id \in DbIds :
       \/ /\ db.progress[id].st = "none"
          /\ db' = [db EXCEPT !.progress[id].st = "live", !.progress[id].rev = 1]
       \/ /\ db.card[id].st = "none"
          /\ db' = [db EXCEPT !.card[id] =
                      [st |-> "live", rev |-> 1, created |-> db.now, modified |-> db.now]]
  /\ UNCHANGED OtherThanDb

\* putCard without an id: the card document is put
DbPutNewCard ==
  /\ Idle
  /\ Revs(db) < MaxDbWrites
  /\ \E id \in DbIds :
       /\ db.card[id].st = "none"
       /\ db' = tryPutNewCard(db, id)
  /\ UNCHANGED OtherThanDb

DbPutNewProgress ==
  /\ db.call.op = "putNewCard"
  /\ db.call.pc = "progress"
  /\ db' = putNewProgress(db, db.call.id)
  /\ UNCHANGED OtherThanDb

DbRemoveNewCard ==
  /\ db.call.op = "putNewCard"
  /\ db.call.pc = "remove"
  /\ db' = removeNewCard(db, db.call.id)
  /\ UNCHANGED OtherThanDb

\* putCard with an id: the update of the card document
DbUpdateCard ==
  /\ Idle
  /\ Revs(db) < MaxDbWrites
  /\ \E id \in DbIds, content \in BOOLEAN,
        level \in {NoField} \cup 0..MaxDbLevel, due \in {NoField} \cup 1..MaxDue :
       /\ content \/ level # NoField \/ due # NoField
       /\ db' = updateCardDoc([db EXCEPT !.call = [op |-> "putCard", id |-> id,
                                 pc |-> "card", content |-> content,
                                 level |-> level, due |-> due]], id, content)
  /\ UNCHANGED OtherThanDb

DbUpdateProgress ==
  /\ db.call.op = "putCard"
  /\ db.call.pc = "progress"
  /\ db' = updateProgressDoc(db, db.call.id, db.call.level, db.call.due)
  /\ UNCHANGED OtherThanDb

DbDeleteCard ==
  /\ Idle
  /\ Revs(db) < MaxDbWrites
  /\ \E id \in DbIds : db' = deleteCardDoc(db, id)
  /\ UNCHANGED OtherThanDb

DbDeleteProgress ==
  /\ db.call.op = "deleteCard"
  /\ db.call.pc = "progress"
  /\ db' = deleteProgressDoc(db, db.call.id)
  /\ UNCHANGED OtherThanDb

NextDb ==
  \/ DbClock
  \/ DbReplicate
  \/ DbPutNewCard
  \/ DbPutNewProgress
  \/ DbRemoveNewCard
  \/ DbUpdateCard
  \/ DbUpdateProgress
  \/ DbDeleteCard
  \/ DbDeleteProgress

SpecDb == InitDb /\ [][NextDb]_vars

C23_DeleteCardIdempotent ==
  Idle =>
    \A id \in DbIds :
      LET once == deleteCard(db, id)
          twice == deleteCard(once, id)
      IN /\ once.result.status = 200
         /\ ~Live(once.card[id])
         /\ ~Live(once.progress[id])
         /\ \A other \in DbIds \ {id} :
              once.card[other] = db.card[other]
                /\ once.progress[other] = db.progress[other]
         /\ (~Live(db.card[id]) /\ ~Live(db.progress[id])) =>
              once.card = db.card /\ once.progress = db.progress
         /\ twice = once

\* a card that was modified after its creation has been deleted with its
\* progress, another id was never created, and deleting either again
\* changes no document
C23_Witness ==
  /\ Idle
  /\ db.result.op = "deleteCard"
  /\ db.card[db.result.id].st = "deleted"
  /\ db.card[db.result.id].rev = 3
  /\ db.progress[db.result.id].st = "deleted"
  /\ \E never \in DbIds : db.card[never].st = "none" /\ db.progress[never].st = "none"
  /\ \A id \in DbIds : deleteCard(db, id).card = db.card
                        /\ deleteCard(db, id).progress = db.progress

\* ------------------------------------------------------------------- C24
\* putCard with an id, run to its end
putCard(d, id, content, level, due) ==
  LET called == [d EXCEPT !.call = [op |-> "putCard", id |-> id, pc |-> "card",
                                    content |-> content, level |-> level,
                                    due |-> due]]
      first == updateCardDoc(called, id, content)
  IN IF first.call.op = "idle" THEN first
     ELSE updateProgressDoc(first, id, level, due)

\* C24: putCard with the id of an existing card and only a progress update
\* writes the progress document only: the card document is not written
\* again, and its 'modified', in the card returned and in a later getCard,
\* is what it was before.
C24_ProgressUpdateKeepsCard ==
  Idle =>
    \A id \in DbIds, level \in {NoField} \cup 0..MaxDbLevel,
       due \in {NoField} \cup 1..MaxDue :
      (Live(db.card[id]) /\ Live(db.progress[id])) =>
        LET after == putCard(db, id, FALSE, level, due)
        IN /\ after.card = db.card
           /\ after.result.status = 200
           /\ after.result.modified = db.card[id].modified
           /\ after.result.cardRev = db.card[id].rev
           /\ getCard(after, id).modified = db.card[id].modified
           /\ \A other \in DbIds \ {id} : after.progress[other] = db.progress[other]

\* a putCard at a later time than the card's creation has written the
\* progress document and returned the card, whose document was written once
C24_Witness ==
  /\ Idle
  /\ db.result.op = "putCard"
  /\ db.result.status = 200
  /\ db.result.cardRev = 1
  /\ db.result.modified < db.now
  /\ db.progress[db.result.id].rev = 2
  /\ db.card[db.result.id].modified = db.result.modified

\* ------------------------------------------------------------------- C25
ReviewTimes == 1..(MaxDue + 1)
Limits == {NoField} \cup 0..MaxDbCards

\* a >= b on scores; NaN is taken to equal itself and is in no order with
\* any other score
ScoreGeq(a, b) ==
  \/ a.kind = "NaN" /\ b.kind = "NaN"
  \/ /\ a.kind # "NaN"
     /\ b.kind # "NaN"
     /\ \/ a.kind = "Infinity"
        \/ a.kind = "number" /\ b.kind = "number" /\ a.v >= b.v

\* the cards that are overdue at the review time
Overdue(d, reviewTime) ==
  {i \in overdueCardSelector(d, reviewTime) : Live(d.card[i])}

\* C25: getOverdueCards(reviewTime, limit) returns only cards whose progress
\* is due at or before reviewTime (a new card, whose due is 0, never), in
\* non-increasing order of overdueness score, and with a limit L the L cards
\* of the highest score.
C25_OverdueRanking ==
  Idle =>
    \A reviewTime \in ReviewTimes, limit \in Limits :
      \A cards \in getOverdueCards(db, reviewTime, limit, FALSE) :
        LET score(i) == getOverdueness(db.progress[i], reviewTime)
            all == Overdue(db, reviewTime)
        IN /\ \A k \in 1..Len(cards) :
                /\ db.progress[cards[k]].due > 0
                /\ db.progress[cards[k]].due <= reviewTime
                /\ cards[k] \in all
           /\ \A k, l \in 1..Len(cards) : k # l => cards[k] # cards[l]
           /\ \A k \in 1..(Len(cards) - 1) :
                ScoreGeq(score(cards[k]), score(cards[k + 1]))
           /\ Len(cards) = IF limit = NoField \/ limit > Cardinality(all)
                           THEN Cardinality(all) ELSE limit
           /\ \A i \in Range(cards), j \in all \ Range(cards) :
                ScoreGeq(score(i), score(j))

\* two cards are overdue, one of them failed (level 0) and due exactly at
\* the review time
C25_Witness ==
  /\ Idle
  /\ \E i, j \in DbIds :
       /\ i # j
       /\ {i, j} \subseteq Overdue(db, MaxDue)
       /\ db.progress[i].level = 0
       /\ db.progress[i].due = MaxDue
       /\ db.progress[j].level > 0
       /\ db.progress[j].due < MaxDue

\* ------------------------------------------------------------------- C26
\* C26: in every reachable state of the store, getAvailableCards(reviewTime)
\* reports as newCards and overdueCards the numbers of cards that getNewCards
\* and getOverdueCards return without a limit for the same review time, also
\* after a card has been deleted.
C26_AvailableMatchesCards ==
  \A reviewTime \in ReviewTimes :
    /\ getAvailableCards(db, reviewTime).newCards = Len(getNewCards(db, NoField))
    /\ \A cards \in getOverdueCards(db, reviewTime, NoField, FALSE) :
         getAvailableCards(db, reviewTime).overdueCards = Len(cards)

\* deleteCard has deleted the card document and not yet the progress
\* document, which the index of due still holds
C26_Witness ==
  /\ db.call.op = "deleteCard"
  /\ db.call.pc = "progress"
  /\ db.card[db.call.id].st = "deleted"
  /\ Live(db.progress[db.call.id])
  /\ db.progress[db.call.id].due # NoField

\* ================================================= the watcher of the store
\* review/sync: the function that subscribes to the state store and to the
\* 'card' changes of the card store.  watcher.screen is the screen of the
\* route, need the needAvailableCards it last computed, delayedCallback the
\* handle of the timer it has set (0: none), timers the timers that are
\* pending, handles the number of setTimeout calls; event is the last event
\* it handled (with the need and whether a timer was pending before it) and
\* log the actions it dispatched in answer to it.  bursts
\* counts the card changes that found no timer pending, changes all card
\* changes that set a timer, fired the delayed queries dispatched and
\* cancelled the timers cleared because they were superseded.
Screens == {"home", "review"}
NoEvent == [kind |-> "none", id |-> 0, deleted |-> FALSE, held |-> FALSE,
            differs |-> FALSE, need |-> FALSE, pending |-> FALSE]

InitWatcher ==
  /\ state = initialState
  /\ steps = 0
  /\ saga = NoSaga
  /\ sync = NoSync
  /\ store = NoStore
  /\ reviewDoc = NoReviewDoc
  /\ db = NoDb
  /\ watcher = [open |-> TRUE, screen |-> "home", need |-> FALSE,
                delayedCallback |-> 0, timers |-> {}, handles |-> 0,
                event |-> NoEvent, log |-> << >>,
                bursts |-> 0, changes |-> 0, fired |-> 0, cancelled |-> 0]

\* available cards are needed on the review screen while no review is running
getNeedAvailableCards(screen, st) ==
  screen = "review" /\ st.phase \in {IDLE, COMPLETE}

\* clearTimeout(delayedCallback)
clearDelayed(w) ==
  [w EXCEPT !.timers = @ \ {w.delayedCallback},
            !.delayedCallback = 0,
            !.cancelled = IF w.delayedCallback # 0 THEN @ + 1 ELSE @]

\* mutant of subscriber: the pending timer is never cleared
subscriberKeepsTimer(w, st) ==
  LET need == getNeedAvailableCards(w.screen, st)
  IN IF ~need THEN [w |-> [w EXCEPT !.need = FALSE], st |-> st]
     ELSE IF \/ w.need /\ st.availableCards # Undefined
             \/ st.loadingAvailableCards
             \/ st.savingProgress
     THEN [w |-> [w EXCEPT !.need = TRUE], st |-> st]
     ELSE [w |-> [w EXCEPT !.need = TRUE,
                           !.log = Append(@, "QUERY_AVAILABLE_CARDS")],
           st |-> queryAvailableCards(st)]

\* the subscriber of the state store.  When available cards are not needed
\* the pending timer is cleared.  When they are newly needed, or needed and
\* not there, and are neither being loaded nor is progress being saved, the
\* pending timer is cleared and QUERY_AVAILABLE_CARDS is dispatched at once
\* (the subscriber runs again on the state it makes and finds the cards
\* being loaded).
subscriber(w, st) ==
  LET need == getNeedAvailableCards(w.screen, st)
  IN IF ~need THEN [w |-> [clearDelayed(w) EXCEPT !.need = FALSE], st |-> st]
     ELSE IF \/ w.need /\ st.availableCards # Undefined
             \/ st.loadingAvailableCards
             \/ st.savingProgress
     THEN [w |-> [w EXCEPT !.need = TRUE], st |-> st]
     ELSE [w |-> [clearDelayed(w) EXCEPT !.need = TRUE,
                                         !.log = Append(@, "QUERY_AVAILABLE_CARDS")],
           st |-> queryAvailableCards(st)]

\* mutant of delayUpdate: the timer that is pending is left to run
delayUpdateKeepsTimer(w) ==
  IF ~w.need THEN w
  ELSE [w EXCEPT !.timers = @ \cup {w.handles + 1},
                 !.delayedCallback = w.handles + 1,
                 !.handles = @ + 1,
                 !.changes = @ + 1,
                 !.bursts = IF w.delayedCallback = 0 THEN @ + 1 ELSE @]

\* a card change while available cards are needed: the pending timer is
\* cleared and a timer is set
delayUpdate(w) ==
  IF ~w.need THEN w
  ELSE [w EXCEPT !.timers = (@ \ {w.delayedCallback}) \cup {w.handles + 1},
                 !.delayedCallback = w.handles + 1,
                 !.handles = @ + 1,
                 !.changes = @ + 1,
                 !.bursts = IF w.delayedCallback = 0 THEN @ + 1 ELSE @]

\* mutant of reviewCards: the cards of the history count as well
reviewCardsWithHistory(st) ==
  SelectSeq(<< st.currentCard >> \o st.heap \o st.failedCardsLevel1
              \o st.failedCardsLevel2 \o st.history,
            LAMBDA c : c # NoCard)

\* the cards of the review that a card change is looked up in
reviewCards(st) ==
  SelectSeq(<< st.currentCard >> \o st.heap \o st.failedCardsLevel1
              \o st.failedCardsLevel2,
            LAMBDA c : c # NoCard)

\* the handler of the 'card' changes: the delayed update, then the card of
\* the review with the id of the change, if any: DELETE_REVIEW_CARD for a
\* deletion, UPDATE_REVIEW_CARD when the document is not equal to the card
onCardChange(w, st, id, deleted, pr, seed) ==
  LET found == SelectSeq(reviewCards(st), LAMBDA c : c.id = id)
      held == found # << >>
      differs == held /\ (found[1].level # pr.level
                            \/ found[1].reviewed # pr.reviewed)
      w1 == [delayUpdate(w) EXCEPT
               !.log = << >>,
               !.event = [kind |-> "change", id |-> id, deleted |-> deleted,
                          held |-> held, differs |-> differs, need |-> w.need,
                          pending |-> w.delayedCallback # 0]]
  IN IF ~held THEN [w |-> w1, st |-> st]
     ELSE IF deleted
     THEN subscriber([w1 EXCEPT !.log = Append(@, "DELETE_REVIEW_CARD")],
                     deleteReviewCard(st, id, seed))
     ELSE IF ~differs THEN [w |-> w1, st |-> st]
     ELSE subscriber([w1 EXCEPT !.log = Append(@, "UPDATE_REVIEW_CARD")],
                     updateReviewCard(st, StoreCard(NewRef(st, 0), NewProg(st, 0),
                                                    id, 1, pr)))

\* the timer fires: QUERY_AVAILABLE_CARDS is dispatched and the handle
\* forgotten
onTimer(w, st, handle) ==
  subscriber([w EXCEPT !.timers = @ \ {handle},
                       !.delayedCallback = IF @ = handle THEN 0 ELSE @,
                       !.fired = @ + 1,
                       !.log = << "QUERY_AVAILABLE_CARDS" >>,
                       !.event = [NoEvent EXCEPT !.kind = "timer", !.id = handle,
                                                 !.need = w.need,
                                                 !.pending = w.delayedCallback # 0]],
             queryAvailableCards(st))

\* an action of the user or of a saga: the reducer, then the subscriber
onDispatch(w, reduced) ==
  subscriber([w EXCEPT !.log = << >>,
                       !.event = [NoEvent EXCEPT !.kind = "state", !.need = w.need,
                                                 !.pending = w.delayedCallback # 0]],
             reduced)

OtherThanWatcher == << saga, sync, store, reviewDoc, db >>

Watched(result) ==
  \E next \in {Canon(result.st)} :
    /\ InBounds(next)
    /\ state' = next
    /\ steps' = steps + 1
    /\ watcher' = result.w
    /\ UNCHANGED OtherThanWatcher

WNavigate ==
  /\ steps < MaxWatcherSteps
  /\ \E screen \in Screens \ {watcher.screen} :
       Watched(onDispatch([watcher EXCEPT !.screen = screen], state))

WNewReview ==
  /\ steps < MaxWatcherSteps
  /\ \E l \in LimitPairs : Watched(onDispatch(watcher, newReview(state, l[1], l[2])))

WReviewLoaded ==
  /\ steps < MaxWatcherSteps
  /\ state.phase = LOADING
  /\ \E a \in LoadedActions(state) : Watched(onDispatch(watcher, reviewLoaded(state, a)))

WPassCard ==
  /\ steps < MaxWatcherSteps
  /\ state.phase \in {QUESTION, ANSWER}
  /\ \E seed \in Seeds : Watched(onDispatch(watcher, passCard(state, seed)))

WFailCard ==
  /\ steps < MaxWatcherSteps
  /\ state.phase \in {QUESTION, ANSWER}
  /\ \E seed \in Seeds : Watched(onDispatch(watcher, failCard(state, seed)))

WFinishUpdateProgress ==
  /\ steps < MaxWatcherSteps
  /\ state.savingProgress
  /\ Watched(onDispatch(watcher, finishUpdateProgress(state)))

WUpdateAvailableCards ==
  /\ steps < MaxWatcherSteps
  /\ state.loadingAvailableCards
  /\ \E a \in AvailableSummaries :
       Watched(onDispatch(watcher, updateAvailableCards(state, a)))

WCardChange ==
  /\ steps < MaxWatcherSteps
  /\ watcher.handles < MaxTimers
  /\ \E id \in CardIds, deleted \in BOOLEAN,
        pr \in StoreProgress \cup {FailedProgress}, seed \in Seeds :
       Watched(onCardChange(watcher, state, id, deleted, pr, seed))

WTimer ==
  /\ steps < MaxWatcherSteps
  /\ \E handle \in watcher.timers : Watched(onTimer(watcher, state, handle))

NextWatcher ==
  \/ WNavigate
  \/ WNewReview
  \/ WReviewLoaded
  \/ WPassCard
  \/ WFailCard
  \/ WFinishUpdateProgress
  \/ WUpdateAvailableCards
  \/ WCardChange
  \/ WTimer

SpecWatcher == InitWatcher /\ [][NextWatcher]_vars

\* ------------------------------------------------------------------- C27
\* C27: while the review screen is showing and available cards are needed,
\* any number of card changes that arrive before the timer fires result in
\* exactly one QUERY_AVAILABLE_CARDS dispatched after the delay; at most one
\* timer is pending at any time.
C27_OneDelayedQuery ==
  /\ Cardinality(watcher.timers) <= 1
  /\ watcher.timers =
       IF watcher.delayedCallback = 0 THEN {} ELSE {watcher.delayedCallback}
  /\ watcher.bursts =
       watcher.fired + watcher.cancelled + Cardinality(watcher.timers)
  /\ watcher.event.kind = "timer" =>
       /\ watcher.log = << "QUERY_AVAILABLE_CARDS" >>
       /\ watcher.timers = {}

\* two card changes arrived one after the other, and the timer has fired
\* once and dispatched the query; no timer is left
C27_Witness ==
  /\ watcher.event.kind = "timer"
  /\ watcher.changes = 2
  /\ watcher.bursts = 1
  /\ watcher.fired = 1
  /\ watcher.cancelled = 0
  /\ watcher.timers = {}
  /\ watcher.log = << "QUERY_AVAILABLE_CARDS" >>

\* ------------------------------------------------------------------- C28
\* C28: a pending delayed refresh never fires after it has been superseded:
\* when a refresh is dispatched at once, or the session leaves the state in
\* which available cards are needed, the timer is cleared and the delayed
\* QUERY_AVAILABLE_CARDS is never dispatched.
C28_SupersededNeverFires ==
  /\ ~watcher.need => watcher.timers = {}
  /\ (watcher.event.kind # "timer"
        /\ "QUERY_AVAILABLE_CARDS" \in Range(watcher.log)) => watcher.timers = {}
  /\ watcher.event.kind = "timer" => watcher.event.need
  /\ watcher.fired + watcher.cancelled <= watcher.bursts
  /\ \A handle \in watcher.timers : handle = watcher.handles

\* a timer was pending when the query was dispatched at once: it has been
\* cleared and has not fired
C28_Witness ==
  /\ watcher.event.kind = "state"
  /\ watcher.event.need
  /\ watcher.event.pending
  /\ watcher.log = << "QUERY_AVAILABLE_CARDS" >>
  /\ watcher.handles = 1
  /\ watcher.cancelled = 1
  /\ watcher.fired = 0
  /\ watcher.timers = {}

\* ------------------------------------------------------------------- C29
\* the cards that are the current card, in the heap or in a failed queue
HeldCards(st, id) ==
  {c \in ({st.currentCard} \cup Range(st.heap) \cup Range(st.failedCardsLevel1)
            \cup Range(st.failedCardsLevel2)) \ {NoCard} : c.id = id}

\* C29: on a card change the watcher dispatches UPDATE_REVIEW_CARD, or
\* DELETE_REVIEW_CARD for a deletion, if and only if the card is the current
\* card or is in the heap or in a failed queue, and for a change that is not
\* a deletion only if the card differs from the copy held; a change of an
\* unrelated card or without a difference dispatches neither.
C29_ChangeDispatch ==
  \A id \in CardIds, deleted \in BOOLEAN,
     pr \in StoreProgress \cup {FailedProgress}, seed \in Seeds :
    LET log == onCardChange(watcher, state, id, deleted, pr, seed).w.log
        held == HeldCards(state, id)
        differs(c) == c.level # pr.level \/ c.reviewed # pr.reviewed
        updates == Cardinality({k \in 1..Len(log) : log[k] = "UPDATE_REVIEW_CARD"})
        deletes == Cardinality({k \in 1..Len(log) : log[k] = "DELETE_REVIEW_CARD"})
    IN /\ updates + deletes <= 1
       /\ deletes = 1 <=> (held # {} /\ deleted)
       /\ updates = 1 => (held # {} /\ ~deleted /\ \E c \in held : differs(c))
       /\ (held # {} /\ ~deleted /\ \A c \in held : differs(c)) => updates = 1
       /\ (held = {} \/ (~deleted /\ \A c \in held : ~differs(c))) =>
            updates + deletes = 0

\* a change of a card that is only in the history arrived and nothing was
\* dispatched, while a different document of the current card would be
\* dispatched as UPDATE_REVIEW_CARD
C29_Witness ==
  /\ watcher.event.kind = "change"
  /\ ~watcher.event.held
  /\ watcher.log = << >>
  /\ \E c \in Range(state.history) : c.id = watcher.event.id
  /\ state.currentCard # NoCard
  /\ \E pr \in StoreProgress, seed \in Seeds :
       onCardChange(watcher, state, state.currentCard.id, FALSE, pr, seed).w.log[1]
         = "UPDATE_REVIEW_CARD"

\* ==================================================== the updateHeap saga
\* takeEvery(['NEW_REVIEW', 'SET_REVIEW_LIMITS', 'SET_REVIEW_TIME'],
\* updateHeap): every such action forks a task that reads the state the
\* reducer has made, awaits getCards for the new cards, awaits getCards for
\* the overdue cards, puts REVIEW_LOADED and awaits putReview.  A task of
\* saga.tasks is at the await pc, with the slots it computed from the state it
\* read and the cards (ids, progress) it has got so far.  store.new holds
\* the cards that are new in the card store, the others are overdue; a
\* query returns cards of its kind up to its limit.  saga.completed keeps the
\* ids of the cards that PASS_CARD has counted in `completed` since the last
\* NEW_REVIEW.
InitHeap ==
  /\ state = initialState
  /\ steps = 0
  /\ saga = [tasks |-> << >>, completed |-> {}]
  /\ sync = NoSync
  /\ store \in {[open |-> TRUE, new |-> S] : S \in SUBSET CardIds}
  /\ RestClosed

NewProgress == [level |-> 0, reviewed |-> NoTime]
OverdueProgress == [level |-> LevelDen, reviewed |-> 0]

\* freeSlots as updateHeap computes it from the state it reads
freeSlots(st) ==
  Max({0, st.maxCards - st.completed - Len(st.failedCardsLevel1)
            - Len(st.failedCardsLevel2)
            - (IF st.currentCard # NoCard THEN 1 ELSE 0)})

newCardSlots(st) ==
  Max({Min({st.maxNewCards - st.newCardsInPlay, freeSlots(st)}), 0})

\* the task from its start to its first await; with no slot at all it has
\* no card to ask for and goes on to put REVIEW_LOADED
updateHeapTask(st, type) ==
  [pc |-> IF newCardSlots(st) > 0 THEN "new"
          ELSE IF freeSlots(st) > 0 THEN "overdue" ELSE "put",
   freeSlots |-> freeSlots(st),
   newCardSlots |-> newCardSlots(st),
   skipFailedCards |-> type \in {"SET_REVIEW_LIMIT", "SET_REVIEW_TIME"},
   ids |-> << >>,
   progress |-> << >>]

\* reviewLoaded(cards) on the state st: every card is a new object
heapLoaded(st, task) ==
  LET ref0 == NewRef(st, 0)
      prog0 == NewProg(st, 0)
  IN {[type |-> "REVIEW_LOADED",
       cards |-> [i \in 1..Len(task.ids) |->
                    StoreCard(ref0, prog0, task.ids[i], i, task.progress[i])],
       history |-> << >>, failedCardsLevel1 |-> << >>, failedCardsLevel2 |-> << >>,
       nextCardSeed |-> s[1], currentCardSeed |-> s[2], initialReview |-> FALSE] :
        s \in SeedPairs(st)}

OtherThanHeap == << sync, store, Rest >>

\* the action types of takeEvery([...], updateHeap)
updateHeapTypes == {"NEW_REVIEW", "SET_REVIEW_LIMITS", "SET_REVIEW_TIME"}

\* the reducer takes the action and, when takeEvery matches its type,
\* updateHeap is forked on the new state
HeapDispatch(reduced, type) ==
  \E next \in {Canon(reduced)} :
    /\ InBounds(next)
    /\ state' = next
    /\ steps' = steps + 1
    /\ saga' = [saga EXCEPT !.tasks = IF type \in updateHeapTypes
                                      THEN Append(@, updateHeapTask(next, type))
                                      ELSE @,
                            !.completed = IF type = "NEW_REVIEW" THEN {} ELSE @]
    /\ UNCHANGED OtherThanHeap

\* a task of the saga goes on; the state changes when it puts an action
HeapTask(i, task, reduced) ==
  \E next \in {Canon(reduced)} :
    /\ InBounds(next)
    /\ state' = next
    /\ steps' = IF next = state THEN steps ELSE steps + 1
    /\ saga' = [saga EXCEPT !.tasks[i] = task]
    /\ UNCHANGED OtherThanHeap

HeapNewReview ==
  /\ steps < MaxHeapSteps
  /\ Len(saga.tasks) < MaxHeapTasks
  /\ \E l \in LimitPairs : HeapDispatch(newReview(state, l[1], l[2]), "NEW_REVIEW")

HeapSetReviewTime ==
  /\ steps < MaxHeapSteps
  /\ Len(saga.tasks) < MaxHeapTasks
  /\ \E reviewTime \in Times :
       HeapDispatch(setReviewTime(state, reviewTime), "SET_REVIEW_TIME")

HeapPassCard ==
  /\ steps < MaxHeapSteps
  /\ answerAccepted(state)
  /\ \E seed \in Seeds :
       /\ Reduce(passCard(state, seed))
       /\ saga' = [saga EXCEPT !.completed =
                     IF passIntermediate(state).completed > state.completed
                     THEN @ \cup {state.currentCard.id} ELSE @]
       /\ UNCHANGED << sync, store, Rest >>

HeapFailCard ==
  /\ steps < MaxHeapSteps
  /\ answerAccepted(state)
  /\ \E seed \in Seeds :
       /\ Reduce(failCard(state, seed))
       /\ UNCHANGED << saga, sync, store, Rest >>

\* CANCEL_REVIEW: no saga takes it, the tasks of updateHeap go on
HeapCancelReview ==
  /\ steps < MaxHeapSteps
  /\ Reduce(cancelReview(state))
  /\ saga' = [saga EXCEPT !.completed =
                IF cancelReview(state) = state THEN @ ELSE {}]
  /\ UNCHANGED << sync, store, Rest >>

\* getCards({limit: newCardSlots, type: 'new'}) resolves
HeapNewCards ==
  \E i \in 1..Len(saga.tasks) :
    /\ saga.tasks[i].pc = "new"
    /\ \E ids \in SeqsOver(store.new, Min({saga.tasks[i].newCardSlots, MaxLoad})) :
         LET free == saga.tasks[i].freeSlots - Len(ids)
         IN HeapTask(i, [saga.tasks[i] EXCEPT
                           !.pc = IF free > 0 THEN "overdue" ELSE "put",
                           !.freeSlots = free,
                           !.ids = ids,
                           !.progress = [k \in 1..Len(ids) |-> NewProgress]],
                     state)

\* getCards({type: 'overdue', limit: freeSlots}) resolves
HeapOverdueCards ==
  \E i \in 1..Len(saga.tasks) :
    /\ saga.tasks[i].pc = "overdue"
    /\ \E ids \in SeqsOver(CardIds \ store.new,
                           Min({saga.tasks[i].freeSlots,
                                MaxLoad - Len(saga.tasks[i].ids)})) :
         \E progress \in {[k \in 1..Len(ids) |-> OverdueProgress]} :
           HeapTask(i, [saga.tasks[i] EXCEPT
                          !.pc = "put",
                          !.ids = @ \o ids,
                          !.progress = @ \o progress],
                    state)

\* put(reviewLoaded(cards)), up to the call of putReview
HeapReviewLoaded ==
  \E i \in 1..Len(saga.tasks) :
    /\ saga.tasks[i].pc = "put"
    /\ steps < MaxHeapSteps
    /\ \E a \in heapLoaded(state, saga.tasks[i]) :
         HeapTask(i, [saga.tasks[i] EXCEPT !.pc = "putReview"],
                  reviewLoaded(state, a))

\* putReview resolves or rejects: the task ends
HeapPutReviewSettles ==
  \E i \in 1..Len(saga.tasks) :
    /\ saga.tasks[i].pc = "putReview"
    /\ saga' = [saga EXCEPT !.tasks = SubSeq(@, 1, i - 1) \o SubSeq(@, i + 1, Len(@))]
    /\ UNCHANGED << state, steps, sync, store, Rest >>

NextHeap ==
  \/ HeapNewReview
  \/ HeapSetReviewTime
  \/ HeapPassCard
  \/ HeapFailCard
  \/ HeapCancelReview
  \/ HeapNewCards
  \/ HeapOverdueCards
  \/ HeapReviewLoaded
  \/ HeapPutReviewSettles

SpecHeap == InitHeap /\ [][NextHeap]_vars

\* ------------------------------------------------------------------- C30
\* the cards of the review: those completed and those that are in a failed
\* queue, in the heap or the current card, each card counted once (the
\* current card stays in its failed queue)
CardsInReview(st) ==
  st.completed
    + Cardinality({c.id : c \in (Range(st.failedCardsLevel1)
                                  \cup Range(st.failedCardsLevel2)
                                  \cup Range(st.heap)
                                  \cup {st.currentCard}) \ {NoCard}})

\* C30: in a review whose limits are not changed after its start, completed
\* plus the number of cards in the failed queues, in the heap and current
\* never exceeds maxCards, in every interleaving of PASS_CARD and FAIL_CARD
\* with the reloads of the heap by updateHeap.
\* (CANCEL_REVIEW sets the limits to 0: no review is under way then).
C30_WithinMaxCards ==
  state.maxCards # 0 => CardsInReview(state) <= state.maxCards

\* a task of updateHeap has read the state and awaits the store while the
\* current card can be answered
C30_Witness ==
  /\ answerAccepted(state)
  /\ state.currentCard # NoCard
  /\ CardsInReview(state) = state.maxCards
  /\ \E i \in 1..Len(saga.tasks) :
       saga.tasks[i].pc \in {"new", "overdue"} /\ saga.tasks[i].freeSlots > 0

\* ------------------------------------------------------------------- C33
\* C33: once a card has been counted in `completed` (passed while not in
\* failedCardsLevel2), it never again becomes currentCard or nextCard during
\* the same review, whatever later reloads of the heap happen.
C33_CompletedNotShownAgain ==
  /\ state.currentCard # NoCard => state.currentCard.id \notin saga.completed
  /\ state.nextCard # NoCard => state.nextCard.id \notin saga.completed

\* a card has been completed and a reload of the heap is under way while
\* another card is shown
C33_Witness ==
  /\ saga.completed # {}
  /\ state.currentCard # NoCard
  /\ state.currentCard.id \notin saga.completed
  /\ \E i \in 1..Len(saga.tasks) : saga.tasks[i].pc \in {"new", "overdue", "put"}

\* ------------------------------------------------------------------- C34
\* C34: availableCards is set only while the phase is Idle or Complete: in
\* every reachable state with phase Loading, Question or Answer,
\* availableCards is undefined.
C34_AvailableOnlyAtRest ==
  state.phase \in {LOADING, QUESTION, ANSWER} => state.availableCards = Undefined

\* UPDATE_AVAILABLE_CARDS has set availableCards in the Complete phase
C34_Witness ==
  /\ state.phase = COMPLETE
  /\ state.availableCards # Undefined
  /\ state.completed > 0

\* ------------------------------------------------------------------- C35
\* C35: after any sequence of PASS_CARD, FAIL_CARD, UPDATE_REVIEW_CARD and
\* DELETE_REVIEW_CARD in a review started with NEW_REVIEW, every card held
\* in failedCardsLevel1 or failedCardsLevel2 has progress.level 0.
C35_FailedCardsLevelZero ==
  \A c \in Range(state.failedCardsLevel1) \cup Range(state.failedCardsLevel2) :
    c.level = 0

\* a failed card that was passed once waits in failedCardsLevel1 with level
\* 0 while another failed card waits in failedCardsLevel2
C35_Witness ==
  /\ state.failedCardsLevel1 # << >>
  /\ state.failedCardsLevel2 # << >>
  /\ C35_FailedCardsLevelZero

\* ------------------------------------------------------------------- C36
\* C36: the phase is Complete only in states where heap, failedCardsLevel1
\* and failedCardsLevel2 are all empty and currentCard and nextCard are
\* null: a review is never reported complete while a failed or unseen card
\* remains.
C36_CompleteMeansNoCards ==
  state.phase = COMPLETE =>
    /\ state.heap = << >>
    /\ state.failedCardsLevel1 = << >>
    /\ state.failedCardsLevel2 = << >>
    /\ state.currentCard = NoCard
    /\ state.nextCard = NoCard

\* the last card has been passed: the review is complete with a card counted
\* and a history
C36_Witness ==
  /\ state.phase = COMPLETE
  /\ state.completed > 0
  /\ state.history # << >>

\* ------------------------------------------------------------------- C37
\* C37: in every reachable state nextCard is null or a different card (a
\* card of another id) from currentCard; in particular, when the only card
\* left in the pool becomes the current card, nextCard is null.
C37_NextIsAnotherCard ==
  state.nextCard # NoCard => state.nextCard.id # state.currentCard.id

\* the only card left in the pool, a failed card, is the current card and
\* there is no next card
C37_Witness ==
  /\ state.currentCard # NoCard
  /\ state.nextCard = NoCard
  /\ state.heap = << >>
  /\ Len(state.failedCardsLevel1) + Len(state.failedCardsLevel2) = 1
  /\ \E c \in Range(state.failedCardsLevel1) \cup Range(state.failedCardsLevel2) :
       c.id = state.currentCard.id

\* ------------------------------------------------------------------- C38
\* C38: whenever the phase is Idle, currentCard and nextCard are null and
\* heap and both failed queues are empty, under every interleaving of
\* CANCEL_REVIEW with a fetch of the heap that is still in flight and
\* dispatches REVIEW_LOADED afterwards.
C38_IdleMeansNoCards ==
  state.phase = IDLE =>
    /\ state.currentCard = NoCard
    /\ state.nextCard = NoCard
    /\ state.heap = << >>
    /\ state.failedCardsLevel1 = << >>
    /\ state.failedCardsLevel2 = << >>

\* the review was cancelled while a task of updateHeap awaits the store or
\* is about to put REVIEW_LOADED
C38_Witness ==
  /\ state.phase = IDLE
  /\ steps >= 2
  /\ C38_IdleMeansNoCards
  /\ \E i \in 1..Len(saga.tasks) :
       /\ saga.tasks[i].pc = "put"
       /\ saga.tasks[i].ids # << >>

\* ====================================================== leaving Loading
\* The session enters Loading by NEW_REVIEW and SET_REVIEW_LIMIT; the tasks
\* of updateHeap run as in SpecHeap.  Every call of the card store settles
\* and a task that has its cards puts REVIEW_LOADED (weak fairness of the
\* three task steps).  An action is dispatched only while every task that
\* has not put REVIEW_LOADED yet has a step left for it.
Pending ==
  Cardinality({i \in 1..Len(saga.tasks) : saga.tasks[i].pc \in {"new", "overdue", "put"}})

Room(n) == steps + Pending + n <= MaxHeapSteps

LoadingNewReview ==
  /\ Room(2)
  /\ HeapNewReview

LoadingSetReviewLimit ==
  /\ Room(2)
  /\ \E l \in LimitPairs :
       HeapDispatch(setReviewLimit(state, l[1], l[2]), "SET_REVIEW_LIMIT")

NextLoading ==
  \/ LoadingNewReview
  \/ LoadingSetReviewLimit
  \/ HeapNewCards
  \/ HeapOverdueCards
  \/ HeapReviewLoaded
  \/ HeapPutReviewSettles

SpecLoading ==
  /\ InitHeap
  /\ [][NextLoading]_vars
  /\ WF_vars(HeapNewCards)
  /\ WF_vars(HeapOverdueCards)
  /\ WF_vars(HeapReviewLoaded)

\* ------------------------------------------------------------------- C39
\* C39: every time the session enters Loading through NEW_REVIEW or
\* SET_REVIEW_LIMIT, REVIEW_LOADED is eventually dispatched and the session
\* leaves Loading, provided the reads of the store complete: the session is
\* never stuck in Loading.
C39_LeavesLoading == (state.phase = LOADING) ~> (state.phase # LOADING)

\* SET_REVIEW_LIMIT has put a review that showed a card into Loading
C39_Witness ==
  /\ state.phase = LOADING
  /\ state.currentCard # NoCard
  /\ \A i \in 1..Len(saga.tasks) : saga.tasks[i].pc = "putReview"

\* ------------------------------------------------------------------- C40
\* C40: if putCard for an existing id fails with NotFound because the card
\* document or the progress document is missing or deleted, neither
\* document has been modified by that call.
C40_NotFoundWritesNothing ==
  Idle =>
    \A id \in DbIds, content \in BOOLEAN,
       level \in {NoField} \cup 0..MaxDbLevel, due \in {NoField} \cup 1..MaxDue :
      LET after == putCard(db, id, content, level, due)
      IN after.result.status = 404 =>
           /\ after.card = db.card
           /\ after.progress = db.progress

\* a putCard with new content has failed with NotFound on a card whose
\* card document is deleted: no document was written
C40_Witness ==
  /\ Idle
  /\ db.result.op = "putCard"
  /\ db.result.status = 404
  /\ db.card[db.result.id].st = "deleted"
  /\ Live(db.progress[db.result.id])

====
